---- MODULE Spec2Model ----
(***************************************************************************)
(* Model of the robust_taxi advertisement dispatch service:                *)
(*   - the session registry of src/src/app.py,                             *)
(*   - the push fan-out of admin_override / push_download_command,         *)
(*   - the ad decision engine of src/src/services.py,                      *)
(*   - the chunked upload protocol of src/src/admin_api.py.                *)
(* Each component has its own next-state relation over the shared state.   *)
(***************************************************************************)
EXTENDS Integers, Sequences, FiniteSets, TLC

\* ------------------------------------------------------------------------
\* Identifier universes and bounds
\* ------------------------------------------------------------------------
DeviceIds == {"d1", "d2"}
Sids == {"h1", "h2", "h3"}
NoSid == "none"
NoDevice == "none"
AdIds == {"A", "B", "C"}
NoPath == "none"
NoAd == "none"
NoCampaign == "none"
CampaignIds == {"c1", "c2"}
Points == {0, 1}
UnknownDevice == "dX"
Deciders == DeviceIds \cup {UnknownDevice}
MaxTargets == 2
MaxPlayed == 4
UploadIds == {"u1", "u2"}
SingleUploadIds == {"u1"}
NoUpload == "none"
Uploaders == {"p1", "p2"}
MAX_CHUNKS == 10000
\* file sizes are counted in MiB: 10 * 1024 * 1024 * 1024 bytes
MAX_FILE_SIZE == 10 * 1024
TotalChunksChoices == {-1, 0, 2, MAX_CHUNKS + 1}
TotalSizeChoices == {0, 2, MAX_FILE_SIZE + 1}
ChunkNumbers == {-1, 0, 1, 2}
\* sizes of the chunk bodies a client sends
ChunkSizes == {1, 2}
UploadAdIds == {"A", "N"}
VideoPaths == <<"v1", "v2", "v3", "v4", "v5">>
MaxFiles == 2

VARIABLES
    sid_state,           \* transport: request.sid lifecycle per connection
    active_connections,  \* app.py: sid -> {device_id}
    device_to_sid,       \* app.py: device_id -> sid
    connection_stats,    \* app.py: {active_devices}
    devices,             \* db.devices: _id -> document
    advertisements,      \* db.advertisements: _id -> document
    video_files,         \* uploads/videos: path -> size in bytes
    campaigns,           \* db.campaigns: _id -> document
    decide,              \* decide_ad calls in flight: locals of each call
    session_files,       \* uploads/chunks/<upload_id>_session.json: upload_id -> session
    chunk_files,         \* uploads/chunks/<upload_id>_chunk_<n>: <<upload_id, n>> -> size
    issued_ids,          \* upload ids uuid4 has handed out
    next_file,           \* number of final file names uuid4 has handed out
    upload,              \* upload requests in flight: locals of each request
    rotation_log,        \* history: per campaign, the skip-free decisions since creation
    acked,               \* history: per upload id, the chunk numbers whose upload returned 200,
                         \* as a set (numbers) and in the order of the replies (order)
    response             \* reply (or log line) of the last handler step that ran

registry_vars == <<sid_state, active_connections, device_to_sid, connection_stats>>
store_vars == <<advertisements, video_files, campaigns>>
decide_vars == <<decide>>
upload_vars == <<session_files, chunk_files, issued_ids, next_file, upload>>
vars == <<sid_state, active_connections, device_to_sid, connection_stats,
          devices, advertisements, video_files, campaigns, decide,
          session_files, chunk_files, issued_ids, next_file, upload,
          rotation_log, acked, response>>

\* ------------------------------------------------------------------------
\* dict helpers (Python dict semantics on TLA+ functions)
\* ------------------------------------------------------------------------
DictDel(f, k) == [x \in (DOMAIN f) \ {k} |-> f[x]]
DictPut(f, k, v) == [x \in (DOMAIN f) \cup {k} |-> IF x = k THEN v ELSE f[x]]
DictGet(doc, k, default) == IF k \in DOMAIN doc THEN doc[k] ELSE default
EmptyDict == [x \in {} |-> "none"]

\* ------------------------------------------------------------------------
\* Session registry (src/src/app.py)
\* ------------------------------------------------------------------------
get_device_sid(d2s, device_id) ==
    IF device_id \in DOMAIN d2s THEN d2s[device_id] ELSE NoSid

\* register_device, lines 100-105: drop the session entry of the sid the
\* device was bound to
EvictOld_keep(ac, d2s, device_id) == ac
EvictOld(ac, d2s, device_id) ==
    IF device_id \in DOMAIN d2s /\ d2s[device_id] \in DOMAIN ac
    THEN DictDel(ac, d2s[device_id])
    ELSE ac

register_device(ac, d2s, sid, device_id) ==
    LET ac2 == DictPut(EvictOld(ac, d2s, device_id), sid, [device_id |-> device_id])
        d2s2 == DictPut(d2s, device_id, sid)
    IN [active_connections |-> ac2,
        device_to_sid |-> d2s2,
        active_devices |-> Cardinality(DOMAIN d2s2)]

unregister_device_keepmap(ac, d2s, stats, sid) ==
    IF sid \in DOMAIN ac
    THEN [active_connections |-> DictDel(ac, sid),
          device_to_sid |-> d2s,
          active_devices |-> Cardinality(DOMAIN d2s),
          returned |-> ac[sid].device_id]
    ELSE [active_connections |-> ac,
          device_to_sid |-> d2s,
          active_devices |-> stats.active_devices,
          returned |-> NoDevice]

unregister_device(ac, d2s, stats, sid) ==
    IF sid \in DOMAIN ac
    THEN LET device_id == ac[sid].device_id
             d2s2 == IF device_id \in DOMAIN d2s THEN DictDel(d2s, device_id) ELSE d2s
         IN [active_connections |-> DictDel(ac, sid),
             device_to_sid |-> d2s2,
             active_devices |-> Cardinality(DOMAIN d2s2),
             returned |-> device_id]
    ELSE [active_connections |-> ac,
          device_to_sid |-> d2s,
          active_devices |-> stats.active_devices,
          returned |-> NoDevice]

handle_connect(sid) ==
    /\ sid_state[sid] = "unused"
    /\ sid_state' = [sid_state EXCEPT ![sid] = "connected"]
    /\ response' = [op |-> "connect", sid |-> sid]
    /\ UNCHANGED <<active_connections, device_to_sid, connection_stats, devices, store_vars,
                   decide_vars, upload_vars, rotation_log, acked>>

\* db.devices.find_one({"_id": device_id})
FindDevice_any(devs, device_id) == TRUE
FindDevice(devs, device_id) == device_id \in DOMAIN devs

handle_register(sid, device_id) ==
    /\ sid_state[sid] = "connected"
    /\ IF ~FindDevice(devices, device_id)
       THEN /\ response' = [op |-> "register", sid |-> sid, device_id |-> device_id,
                            event |-> "registration_error", old_sid |-> NoSid,
                            old_live |-> FALSE]
            /\ UNCHANGED <<active_connections, device_to_sid, connection_stats>>
       ELSE LET r == register_device(active_connections, device_to_sid, sid, device_id)
            IN /\ active_connections' = r.active_connections
               /\ device_to_sid' = r.device_to_sid
               /\ connection_stats' = [active_devices |-> r.active_devices]
               /\ response' = [op |-> "register", sid |-> sid, device_id |-> device_id,
                               event |-> "registration_success",
                               old_sid |-> get_device_sid(device_to_sid, device_id),
                               old_live |-> get_device_sid(device_to_sid, device_id)
                                               \in DOMAIN active_connections]
    /\ UNCHANGED <<sid_state, devices, store_vars, decide_vars, upload_vars, rotation_log, acked>>

handle_disconnect(sid) ==
    /\ sid_state[sid] = "connected"
    /\ LET r == unregister_device(active_connections, device_to_sid, connection_stats, sid)
       IN /\ active_connections' = r.active_connections
          /\ device_to_sid' = r.device_to_sid
          /\ connection_stats' = [active_devices |-> r.active_devices]
          /\ response' = [op |-> "disconnect", sid |-> sid, device_id |-> r.returned]
    /\ sid_state' = [sid_state EXCEPT ![sid] = "closed"]
    /\ UNCHANGED <<devices, store_vars, decide_vars, upload_vars, rotation_log, acked>>

\* ------------------------------------------------------------------------
\* Device CRUD (src/src/admin_api.py)
\* ------------------------------------------------------------------------
create_device(device_id, groups) ==
    /\ IF device_id \in DOMAIN devices
       THEN /\ response' = [op |-> "create_device", device_id |-> device_id, status |-> 400]
            /\ UNCHANGED devices
       ELSE /\ devices' = DictPut(devices, device_id, [groups |-> groups, last_location |-> 0])
            /\ response' = [op |-> "create_device", device_id |-> device_id, status |-> 201]
    /\ UNCHANGED <<registry_vars, store_vars, decide_vars, upload_vars, rotation_log, acked>>

\* delete_device only emits force_disconnect to the bound sid; the registry
\* maps are not touched by the handler
delete_device(device_id) ==
    /\ IF device_id \notin DOMAIN devices
       THEN /\ response' = [op |-> "delete_device", device_id |-> device_id, status |-> 404,
                            force_disconnect |-> NoSid]
            /\ UNCHANGED devices
       ELSE /\ devices' = DictDel(devices, device_id)
            /\ response' = [op |-> "delete_device", device_id |-> device_id, status |-> 200,
                            force_disconnect |-> get_device_sid(device_to_sid, device_id)]
    /\ UNCHANGED <<registry_vars, store_vars, decide_vars, upload_vars, rotation_log, acked>>

\* ------------------------------------------------------------------------
\* Chunk arithmetic of the downloads (src/src/app.py, src/src/admin_api.py).
\* Sizes are counted in MiB, as for the upload.
\* ------------------------------------------------------------------------
\* CHUNK_SIZE = 10 * 1024 * 1024
CHUNK_SIZE == 10
\* if chunk_size < 1024 * 1024
MIN_CHUNK_SIZE == 1
\* elif chunk_size > 50 * 1024 * 1024
MAX_CHUNK_SIZE == 50

\* chunk_size and chunk query parameters of the requests
DownloadChunkSizes == {-1, 0, MIN_CHUNK_SIZE, CHUNK_SIZE, MAX_CHUNK_SIZE + 1}
DownloadChunkNumbers == {-1, 0, 1, 2, 3}
\* sizes of the one chunk of the uploaded video
DownloadFileSizes == {0, 1, 25}
DownloadAdIds == {"A", "B", "N"}

Max(a, b) == IF a >= b THEN a ELSE b
Min(a, b) == IF a <= b THEN a ELSE b

\* Python's a // b, b # 0
FloorDiv(a, b) == IF b > 0 THEN a \div b ELSE (0 - a) \div (0 - b)

ClampChunkSize(chunk_size) ==
    IF chunk_size < MIN_CHUNK_SIZE THEN MIN_CHUNK_SIZE
    ELSE IF chunk_size > MAX_CHUNK_SIZE THEN MAX_CHUNK_SIZE
    ELSE chunk_size

DeviceTotalChunks_floor(file_size, chunk_size) ==
    Max(1, FloorDiv(file_size, chunk_size))

\* max(1, (file_size + chunk_size - 1) // chunk_size)
DeviceTotalChunks(file_size, chunk_size) ==
    Max(1, FloorDiv(file_size + chunk_size - 1, chunk_size))

\* (file_size + chunk_size - 1) // chunk_size
AdminTotalChunks(file_size, chunk_size) ==
    FloorDiv(file_size + chunk_size - 1, chunk_size)

\* advertisement found, video_path set and os.path.exists(video_path)
VideoExists(advertisement_id) ==
    /\ advertisement_id \in DOMAIN advertisements
    /\ advertisements[advertisement_id].video_path # NoPath
    /\ advertisements[advertisement_id].video_path \in DOMAIN video_files

\* os.path.getsize(video_path)
GetSize(advertisement_id) == video_files[advertisements[advertisement_id].video_path]

\* ------------------------------------------------------------------------
\* Push dispatcher (src/src/app.py admin_override,
\*                  src/src/admin_api.py push_download_command)
\* ------------------------------------------------------------------------
\* the emit of position i raises iff ~emit_ok[i]
EmitDelivered_always(emit_ok, i) == TRUE
EmitDelivered(emit_ok, i) == emit_ok[i]

\* the loop "for device_id in target_device_ids"
FanOut_abort(target_device_ids, emit_ok, d2s) ==
    LET F[i \in 0..Len(target_device_ids)] ==
            IF i = 0 THEN [sent |-> <<>>, offline |-> <<>>, aborted |-> FALSE]
            ELSE LET device_id == target_device_ids[i]
                     sid == get_device_sid(d2s, device_id)
                 IN IF F[i-1].aborted THEN F[i-1]
                    ELSE IF sid # NoSid /\ emit_ok[i]
                         THEN [F[i-1] EXCEPT !.sent = Append(@, device_id)]
                         ELSE [F[i-1] EXCEPT !.offline = Append(@, device_id),
                                             !.aborted = TRUE]
    IN [sent |-> F[Len(target_device_ids)].sent,
        offline |-> F[Len(target_device_ids)].offline]

FanOut(target_device_ids, emit_ok, d2s) ==
    LET F[i \in 0..Len(target_device_ids)] ==
            IF i = 0 THEN [sent |-> <<>>, offline |-> <<>>]
            ELSE LET device_id == target_device_ids[i]
                     sid == get_device_sid(d2s, device_id)
                 IN IF sid # NoSid
                    THEN IF EmitDelivered(emit_ok, i)
                         THEN [F[i-1] EXCEPT !.sent = Append(@, device_id)]
                         ELSE [F[i-1] EXCEPT !.offline = Append(@, device_id)]
                    ELSE [F[i-1] EXCEPT !.offline = Append(@, device_id)]
    IN F[Len(target_device_ids)]

PushResponse(op, target_device_ids, emit_ok, d2s) ==
    LET r == FanOut(target_device_ids, emit_ok, d2s)
    IN [op |-> op, status |-> 200,
        target_device_ids |-> target_device_ids, emit_ok |-> emit_ok,
        sent |-> r.sent, offline |-> r.offline,
        total_targets |-> Len(target_device_ids),
        sent_count |-> Len(r.sent),
        offline_count |-> Len(r.offline)]

TargetLists == UNION {[1..n -> DeviceIds] : n \in 0..MaxTargets}

admin_override(target_device_ids, advertisement_id, emit_ok) ==
    /\ response' =
          IF target_device_ids = <<>> THEN [op |-> "admin_override", status |-> 400]
          ELSE IF advertisement_id \notin DOMAIN advertisements
               THEN [op |-> "admin_override", status |-> 404]
               ELSE PushResponse("admin_override", target_device_ids, emit_ok, device_to_sid)
    /\ UNCHANGED <<registry_vars, devices, store_vars, decide_vars, upload_vars, rotation_log, acked>>

\* the fields of the DOWNLOAD_VIDEO command that describe the chunks
DownloadCommand(advertisement_id, total_chunks) ==
    [advertisement_id |-> advertisement_id, file_size |-> GetSize(advertisement_id),
     chunk_size |-> CHUNK_SIZE, total_chunks |-> total_chunks]

push_download_command(target_device_ids, advertisement_id, emit_ok) ==
    /\ response' =
          IF target_device_ids = <<>> THEN [op |-> "push_download", status |-> 400]
          ELSE IF advertisement_id \notin DOMAIN advertisements
               THEN [op |-> "push_download", status |-> 404]
               ELSE IF \/ advertisements[advertisement_id].video_path = NoPath
                       \/ advertisements[advertisement_id].video_path \notin DOMAIN video_files
                    THEN [op |-> "push_download", status |-> 404]
                    ELSE PushResponse("push_download", target_device_ids, emit_ok, device_to_sid)
                            @@ DownloadCommand(advertisement_id,
                                   AdminTotalChunks(GetSize(advertisement_id), CHUNK_SIZE))
    /\ UNCHANGED <<registry_vars, devices, store_vars, decide_vars, upload_vars, rotation_log, acked>>

\* advertisement id lists an administrator posts to the batch push
BatchAdLists == {<<"B", "A">>, <<"A", "A">>}

\* target lists an administrator posts to the batch push
BatchTargetLists == {<<>>, <<"d1", "d2">>, <<"d2", "d1">>}

\* one element of batch_results: the fan-out of one advertisement
BatchResult(advertisement_id, target_device_ids, emit_ok, d2s) ==
    IF advertisement_id \notin DOMAIN advertisements
    THEN [advertisement_id |-> advertisement_id, status |-> "error"]
    ELSE IF \/ advertisements[advertisement_id].video_path = NoPath
            \/ advertisements[advertisement_id].video_path \notin DOMAIN video_files
         THEN [advertisement_id |-> advertisement_id, status |-> "error"]
         ELSE LET r == FanOut(target_device_ids, emit_ok, d2s)
              IN [advertisement_id |-> advertisement_id, status |-> "success",
                  sent_to |-> r.sent, offline_devices |-> r.offline,
                  file_size |-> GetSize(advertisement_id),
                  total_chunks |-> AdminTotalChunks(GetSize(advertisement_id), CHUNK_SIZE)]

BatchFailed(result) ==
    IF result.status = "error" THEN 1 ELSE Len(result.offline_devices)

BatchSent(result) ==
    IF result.status = "error" THEN 0 ELSE Len(result.sent_to)

RECURSIVE SumSeq(_)
SumSeq(q) == IF q = <<>> THEN 0 ELSE Head(q) + SumSeq(Tail(q))

batch_push_download(target_device_ids, advertisement_ids, emit_ok) ==
    /\ response' =
          IF target_device_ids = <<>> \/ advertisement_ids = <<>>
          THEN [op |-> "batch_push_download", status |-> 400]
          ELSE LET batch_results ==
                       [k \in 1..Len(advertisement_ids) |->
                           BatchResult(advertisement_ids[k], target_device_ids,
                                       emit_ok[k], device_to_sid)]
               IN [op |-> "batch_push_download", status |-> 200,
                   target_device_ids |-> target_device_ids,
                   advertisement_ids |-> advertisement_ids,
                   emit_ok |-> emit_ok,
                   batch_results |-> batch_results,
                   total_sent |->
                       SumSeq([k \in 1..Len(batch_results) |-> BatchSent(batch_results[k])]),
                   total_failed |->
                       SumSeq([k \in 1..Len(batch_results) |-> BatchFailed(batch_results[k])])]
    /\ UNCHANGED <<registry_vars, devices, store_vars, decide_vars, upload_vars, rotation_log, acked>>



\* ------------------------------------------------------------------------
\* Campaign and advertisement administration (src/src/admin_api.py,
\* src/src/models.py)
\* ------------------------------------------------------------------------
Dist(a, b) == IF a >= b THEN a - b ELSE b - a

\* the polygon create_with_center draws around the centre, as the set of
\* grid points a $geoIntersects query finds inside it
CircleFence(center, radius) == {q \in Points : Dist(q, center) <= radius}

create_with_center(campaign_id, advertisement_ids, priority, target_groups, center, radius) ==
    [advertisement_ids |-> advertisement_ids,
     advertisement_id |-> advertisement_ids[1],
     priority |-> priority,
     target_groups |-> target_groups,
     status |-> "active",
     geo_fence |-> CircleFence(center, radius),
     current_ad_index |-> 0]

\* request bodies an administrator posts to /campaigns
CampaignRequests ==
    { [advertisement_ids |-> <<"A", "B", "C">>, priority |-> 5, target_groups |-> {"g1"},
       center |-> 0, radius |-> 1],
      [advertisement_ids |-> <<"B">>, priority |-> 10, target_groups |-> {"g1"},
       center |-> 0, radius |-> 0],
      [advertisement_ids |-> <<"C", "A">>, priority |-> 10, target_groups |-> {"g2"},
       center |-> 1, radius |-> 1],
      [advertisement_ids |-> <<>>, priority |-> 5, target_groups |-> {"g1"},
       center |-> 0, radius |-> 1] }

create_campaign(campaign_id, req) ==
    /\ IF req.advertisement_ids = <<>>
       THEN /\ response' = [op |-> "create_campaign", campaign_id |-> campaign_id, status |-> 400]
            /\ UNCHANGED campaigns
       ELSE IF \E i \in DOMAIN req.advertisement_ids :
                  req.advertisement_ids[i] \notin DOMAIN advertisements
       THEN /\ response' = [op |-> "create_campaign", campaign_id |-> campaign_id, status |-> 404]
            /\ UNCHANGED campaigns
       ELSE IF campaign_id \in DOMAIN campaigns
       THEN /\ response' = [op |-> "create_campaign", campaign_id |-> campaign_id, status |-> 400]
            /\ UNCHANGED campaigns
       ELSE /\ campaigns' = DictPut(campaigns, campaign_id,
                               create_with_center(campaign_id, req.advertisement_ids,
                                                  req.priority, req.target_groups,
                                                  req.center, req.radius))
            /\ response' = [op |-> "create_campaign", campaign_id |-> campaign_id, status |-> 201]
    /\ UNCHANGED <<registry_vars, devices, advertisements, video_files, decide_vars, upload_vars, acked>>

\* device_campaign_state is None in this deployment (app.py passes none), so
\* no device is notified
\* the devices whose entry of device_campaign_state is campaign_id; the
\* cache handed to init_admin_api is None and the loop is skipped
AffectedDevices(campaign_id) == {}

\* the affected devices that resolve to a sid get revert_to_local_playlist
RevertNotified(affected_devices, d2s) ==
    {device_id \in affected_devices : get_device_sid(d2s, device_id) # NoSid}

delete_campaign(campaign_id) ==
    /\ IF campaign_id \notin DOMAIN campaigns
       THEN /\ response' = [op |-> "delete_campaign", campaign_id |-> campaign_id, status |-> 404]
            /\ UNCHANGED campaigns
       ELSE /\ campaigns' = DictDel(campaigns, campaign_id)
            /\ response' = [op |-> "delete_campaign", campaign_id |-> campaign_id, status |-> 200,
                            affected_devices |-> AffectedDevices(campaign_id),
                            revert_to_local_playlist |->
                                RevertNotified(AffectedDevices(campaign_id), device_to_sid)]
    /\ UNCHANGED <<registry_vars, devices, advertisements, video_files, decide_vars, upload_vars, acked>>

update_advertisement(ad_id, status) ==
    /\ IF ad_id \notin DOMAIN advertisements
       THEN /\ response' = [op |-> "update_advertisement", ad_id |-> ad_id, status |-> 404]
            /\ UNCHANGED advertisements
       ELSE /\ advertisements' = [advertisements EXCEPT ![ad_id].status = status]
            /\ response' = [op |-> "update_advertisement", ad_id |-> ad_id, status |-> 200]
    /\ UNCHANGED <<registry_vars, devices, video_files, campaigns, decide_vars, upload_vars, rotation_log, acked>>

delete_advertisement(ad_id) ==
    /\ IF ad_id \notin DOMAIN advertisements
       THEN /\ response' = [op |-> "delete_advertisement", ad_id |-> ad_id, status |-> 404]
            /\ UNCHANGED <<advertisements, video_files, campaigns>>
       ELSE /\ video_files' = IF advertisements[ad_id].video_path \in DOMAIN video_files
                              THEN DictDel(video_files, advertisements[ad_id].video_path)
                              ELSE video_files
            /\ advertisements' = DictDel(advertisements, ad_id)
            /\ campaigns' = [c \in {x \in DOMAIN campaigns :
                                      DictGet(campaigns[x], "advertisement_id", NoAd) # ad_id}
                               |-> campaigns[c]]
            /\ response' = [op |-> "delete_advertisement", ad_id |-> ad_id, status |-> 200]
    /\ UNCHANGED <<registry_vars, devices, decide_vars, upload_vars, acked>>

\* ------------------------------------------------------------------------
\* Ad decision engine (src/src/services.py AdDecisionService.decide_ad)
\* ------------------------------------------------------------------------
IdleCall == [pc |-> "idle", point |-> 0, campaign_id |-> NoCampaign,
             advertisement_ids |-> <<>>, current_index |-> 0, selected_index |-> 0]

\* campaigns.find({geo_fence: $geoIntersects point, status: "active"})
MatchingCampaigns(camps, point) ==
    {c \in DOMAIN camps : point \in camps[c].geo_fence /\ camps[c].status = "active"}

\* any(group in target_groups for group in device_groups)
GroupsMatch_any(target_groups, device_groups) == TRUE
GroupsMatch(target_groups, device_groups) ==
    \E g \in device_groups : g \in target_groups

EligibleCampaigns(camps, device_groups, point) ==
    {c \in MatchingCampaigns(camps, point) :
        GroupsMatch(camps[c].target_groups, device_groups)}

\* max(eligible_campaigns, key=priority): the result is a campaign of the
\* largest priority; which one among equals depends on the cursor order
IsMaxPriority_any(camps, eligible, c) == TRUE
IsMaxPriority(camps, eligible, c) ==
    \A o \in eligible : DictGet(camps[o], "priority", 0) <= DictGet(camps[c], "priority", 0)

\* advertisement_ids, falling back to the legacy advertisement_id
AdListOf(doc) ==
    IF DictGet(doc, "advertisement_ids", <<>>) # <<>>
    THEN doc.advertisement_ids
    ELSE IF DictGet(doc, "advertisement_id", NoAd) # NoAd
         THEN <<doc.advertisement_id>>
         ELSE <<>>

StartIndex(doc, list_len) ==
    IF DictGet(doc, "current_ad_index", 0) >= list_len
    THEN 0
    ELSE DictGet(doc, "current_ad_index", 0)

\* advertisements.find_one({_id: candidate_id, status: "active"})
FindActiveAd_exists(ads, candidate_id) == candidate_id \in DOMAIN ads
FindActiveAd(ads, candidate_id) ==
    candidate_id \in DOMAIN ads /\ ads[candidate_id].status = "active"

NextIndex_stay(selected_index, list_len) == selected_index
NextIndex(selected_index, list_len) == (selected_index + 1) % list_len

\* the value decide_ad returns when it returns no advertisement, in the
\* shape of the dict it returns otherwise
None == [advertisement_id |-> NoAd, campaign_id |-> NoCampaign]

\* device_heartbeat, app.py lines 800-839: the reply to the requester and
\* whether play_ad is emitted, from the value decide_ad returned and the sid
\* the device resolves to
device_heartbeat(ad_info, sid) ==
    IF ad_info = None
    THEN [status |-> 404, message |-> "device_not_found", play_ad |-> FALSE]
    ELSE [status |-> 200, message |-> "PLAY_VIDEO", play_ad |-> sid # NoSid]

\* handle_location_update, app.py lines 237-312: the events emitted to the
\* requester, from the value decide_ad returned
handle_location_update(ad_info) ==
    IF ad_info # None
    THEN [play_ad |-> TRUE, reply |-> "location_ack", message |-> "pushed"]
    ELSE [play_ad |-> FALSE, reply |-> "location_ack", message |-> "no_match"]

\* what the two callers of decide_ad do with the value it returned
Callers(ad_info, device_id) ==
    [heartbeat |-> device_heartbeat(ad_info, get_device_sid(device_to_sid, device_id)),
     location_update |-> handle_location_update(ad_info)]

NoDecision(d, point, reason) ==
    [op |-> "decide_ad", device_id |-> d, outcome |-> "none", reason |-> reason,
     point |-> point, callers |-> Callers(None, d)]

\* the loop of lines 119-134: the first turn i whose candidate is found
\* active, as [found, selected_index]
ScanAds(ads, advertisement_ids, current_index) ==
    LET list_len == Len(advertisement_ids)
        Turn[i \in 0..list_len] ==
            IF i = list_len
            THEN [found |-> FALSE, selected_index |-> current_index]
            ELSE LET idx == (current_index + i) % list_len
                 IN IF FindActiveAd(ads, advertisement_ids[idx + 1])
                    THEN [found |-> TRUE, selected_index |-> idx]
                    ELSE Turn[i + 1]
    IN Turn[0]

SetRotationIndex_all(camps, campaign_id, next_index) ==
    [c \in DOMAIN camps |->
        [k \in DOMAIN camps[c] \cup {"current_ad_index"} |->
            IF k = "current_ad_index" THEN next_index ELSE camps[c][k]]]

\* $set current_ad_index on the campaign of that id, if there is one
SetRotationIndex(camps, campaign_id, next_index) ==
    IF campaign_id \in DOMAIN camps
    THEN [c \in DOMAIN camps |->
            IF c = campaign_id
            THEN [k \in DOMAIN camps[c] \cup {"current_ad_index"} |->
                    IF k = "current_ad_index" THEN next_index ELSE camps[c][k]]
            ELSE camps[c]]
    ELSE camps

\* lines 39-113: device lookup, position update, campaign query and
\* selection, ad list and start index
\* written: devices.update_one of lines 50-57 did not raise; when it raises
\* the handler of lines 159-161 returns None
DecideQuery(d, point, written) ==
    /\ decide[d].pc = "idle"
    /\ IF d \notin DOMAIN devices
       THEN /\ response' = NoDecision(d, point, "device_not_found")
            /\ UNCHANGED <<devices, decide>>
       ELSE IF ~written
       THEN /\ response' = NoDecision(d, point, "exception")
            /\ UNCHANGED <<devices, decide>>
       ELSE /\ devices' = [devices EXCEPT ![d].last_location = point]
            /\ LET eligible == EligibleCampaigns(campaigns, devices[d].groups, point) IN
               IF eligible = {}
               THEN /\ response' = NoDecision(d, point, "no_campaign")
                    /\ UNCHANGED decide
               ELSE \E c \in eligible :
                      /\ IsMaxPriority(campaigns, eligible, c)
                      /\ LET ids == AdListOf(campaigns[c]) IN
                         IF ids = <<>>
                         THEN /\ response' = NoDecision(d, point, "no_ads")
                              /\ UNCHANGED decide
                         ELSE /\ decide' = [decide EXCEPT ![d] =
                                    [pc |-> "scan", point |-> point, campaign_id |-> c,
                                     advertisement_ids |-> ids,
                                     current_index |-> StartIndex(campaigns[c], Len(ids)),
                                     selected_index |-> 0]]
                              /\ response' = [op |-> "decide_select", device_id |-> d,
                                              point |-> point, campaign_id |-> c]
    /\ UNCHANGED <<registry_vars, advertisements, video_files, campaigns, upload_vars,
                   rotation_log, acked>>

\* lines 115-138: the scan of the ad list for the first active ad
DecideScan(d) ==
    /\ decide[d].pc = "scan"
    /\ LET call == decide[d]
           scan == ScanAds(advertisements, call.advertisement_ids, call.current_index)
       IN IF scan.found
          THEN /\ decide' = [decide EXCEPT ![d].pc = "write",
                                           ![d].selected_index = scan.selected_index]
               /\ UNCHANGED response
          ELSE /\ decide' = [decide EXCEPT ![d] = IdleCall]
               /\ response' = [op |-> "decide_ad", device_id |-> d, outcome |-> "none",
                               reason |-> "no_active_ad", point |-> call.point,
                               campaign_id |-> call.campaign_id,
                               advertisement_ids |-> call.advertisement_ids,
                               callers |-> Callers(None, d)]
    /\ UNCHANGED <<registry_vars, devices, advertisements, video_files, campaigns,
                   upload_vars, rotation_log, acked>>

\* lines 140-157: persist the next index and return the decision
DecideWrite(d) ==
    /\ decide[d].pc = "write"
    /\ LET call == decide[d]
           next_index == NextIndex(call.selected_index, Len(call.advertisement_ids))
       IN /\ campaigns' = SetRotationIndex(campaigns, call.campaign_id, next_index)
          /\ response' = [op |-> "decide_ad", device_id |-> d, outcome |-> "play",
                          reason |-> "ok", point |-> call.point,
                          campaign_id |-> call.campaign_id,
                          advertisement_id |-> call.advertisement_ids[call.selected_index + 1],
                          advertisement_ids |-> call.advertisement_ids,
                          start_index |-> call.current_index,
                          selected_index |-> call.selected_index,
                          next_index |-> next_index,
                          callers |->
                              Callers([advertisement_id |->
                                           call.advertisement_ids[call.selected_index + 1],
                                       campaign_id |-> call.campaign_id], d)]
          /\ decide' = [decide EXCEPT ![d] = IdleCall]
    /\ UNCHANGED <<registry_vars, devices, advertisements, video_files, upload_vars, acked>>

\* ------------------------------------------------------------------------
\* History of rotation: for each campaign the positions returned by the
\* decisions since it was created, restarted by a decision that had to skip
\* an ad.  Not program state.
\* ------------------------------------------------------------------------
EmptyLog == [start |-> 0, ads |-> <<>>]

LogKeep == UNCHANGED rotation_log

LogResetGone ==
    rotation_log' = [c \in CampaignIds |->
                       IF c \in DOMAIN campaigns' THEN rotation_log[c] ELSE EmptyLog]

LogDecision(d) ==
    LET call == decide[d]
        c == call.campaign_id
        log == rotation_log[c]
    IN rotation_log' =
         IF call.selected_index # call.current_index
         THEN [rotation_log EXCEPT ![c] = EmptyLog]
         ELSE IF Len(log.ads) >= MaxPlayed
         THEN rotation_log
         ELSE [rotation_log EXCEPT ![c] =
                 [start |-> IF log.ads = <<>> THEN call.current_index ELSE log.start,
                  ads |-> Append(log.ads, call.advertisement_ids[call.selected_index + 1])]]

\* ------------------------------------------------------------------------
\* Chunked upload (src/src/admin_api.py).  A request is a sequence of file
\* system and database operations; each operation is one step, and requests
\* of different workers interleave between steps.
\* ------------------------------------------------------------------------
NoSession == [total_size |-> 0, total_chunks |-> 0, received_chunks |-> <<>>,
              advertisement_id |-> NoAd]

IdleUpload == [pc |-> "idle", upload_id |-> NoUpload, chunk_number |-> 0, chunk_data |-> 0,
               session |-> NoSession, final_path |-> NoPath]

\* list.sort()
RECURSIVE SortedList(_)
SortedList(s) ==
    IF s = <<>>
    THEN <<>>
    ELSE LET m == CHOOSE i \in DOMAIN s : \A j \in DOMAIN s : s[i] <= s[j]
         IN <<s[m]>> \o SortedList(SubSeq(s, 1, m - 1) \o SubSeq(s, m + 1, Len(s)))

\* the ids init_chunked_upload tries in turn: the requested one, then the
\* requested one with a counter appended
CandidateAdIds(advertisement_id) ==
    IF advertisement_id = "A" THEN <<"A", "A-1", "A-2">> ELSE <<"N", "N-1", "N-2">>

FreeAdId(ads, advertisement_id) ==
    LET cand == CandidateAdIds(advertisement_id)
        i == CHOOSE k \in DOMAIN cand :
                /\ cand[k] \notin DOMAIN ads
                /\ \A j \in 1..(k - 1) : cand[j] \in DOMAIN ads
    IN cand[i]

\* for i in range(MAX_CHUNKS): remove the chunk file i if it exists
cleanup_chunks_none(files, upload_id) == files
cleanup_chunks(files, upload_id) ==
    [f \in {g \in DOMAIN files : ~(g[1] = upload_id /\ g[2] >= 0 /\ g[2] < MAX_CHUNKS)} |->
        files[f]]

\* the checks of init_chunked_upload, lines 1210-1235, in their order; the
\* result names the message of the 400 reply
InitError_nocount(total_size, total_chunks) ==
    IF total_size = 0 \/ total_chunks = 0 THEN "missing"
    ELSE IF total_size > MAX_FILE_SIZE THEN "size"
    ELSE "none"
InitError(total_size, total_chunks) ==
    IF total_size = 0 \/ total_chunks = 0 THEN "missing"
    ELSE IF total_size > MAX_FILE_SIZE THEN "size"
    ELSE IF total_chunks > MAX_CHUNKS THEN "count"
    ELSE "none"

\* upload_id is the value uuid4 returns at line 1238, when the checks passed
init_chunked_upload(upload_id, total_size, total_chunks, advertisement_id) ==
    /\ IF InitError(total_size, total_chunks) # "none"
       THEN /\ response' = [op |-> "init_chunked_upload", status |-> 400,
                            error |-> InitError(total_size, total_chunks)]
            /\ UNCHANGED <<session_files, issued_ids>>
       ELSE /\ upload_id \notin issued_ids
            /\ issued_ids' = issued_ids \cup {upload_id}
            /\ session_files' = DictPut(session_files, upload_id,
                                   [total_size |-> total_size,
                                    total_chunks |-> total_chunks,
                                    received_chunks |-> <<>>,
                                    advertisement_id |-> FreeAdId(advertisements, advertisement_id)])
            /\ response' = [op |-> "init_chunked_upload", status |-> 200,
                            upload_id |-> upload_id]
    /\ UNCHANGED <<registry_vars, devices, store_vars, decide_vars, chunk_files, next_file,
                   upload, rotation_log, acked>>

\* if chunk_number >= upload_session['total_chunks']
ChunkNumberRejected_never(chunk_number, total_chunks) == FALSE
ChunkNumberRejected(chunk_number, total_chunks) == chunk_number >= total_chunks

\* upload_chunk, lines 1321-1349: read the session file, check the number
upload_chunk_read(p, upload_id, chunk_number, chunk_data) ==
    /\ upload[p].pc = "idle"
    /\ IF upload_id \notin DOMAIN session_files
       THEN /\ response' = [op |-> "upload_chunk", status |-> 404, upload_id |-> upload_id]
            /\ UNCHANGED upload
       ELSE IF ChunkNumberRejected(chunk_number, session_files[upload_id].total_chunks)
       THEN /\ response' = [op |-> "upload_chunk", status |-> 400, upload_id |-> upload_id]
            /\ UNCHANGED upload
       ELSE /\ upload' = [upload EXCEPT ![p] =
                            [pc |-> "save", upload_id |-> upload_id,
                             chunk_number |-> chunk_number,
                             chunk_data |-> chunk_data,
                             session |-> session_files[upload_id],
                             final_path |-> NoPath]]
            /\ response' = [op |-> "upload_chunk_read"]
    /\ UNCHANGED <<registry_vars, devices, store_vars, decide_vars, session_files, chunk_files,
                   issued_ids, next_file, rotation_log, acked>>

\* upload_chunk, lines 1351-1361: save the chunk file
upload_chunk_save(p, saved) ==
    /\ upload[p].pc = "save"
    /\ IF saved
       THEN /\ chunk_files' = DictPut(chunk_files,
                                      <<upload[p].upload_id, upload[p].chunk_number>>,
                                      upload[p].chunk_data)
            /\ upload' = [upload EXCEPT ![p].pc = "write"]
            /\ response' = [op |-> "upload_chunk_save"]
       ELSE /\ upload' = [upload EXCEPT ![p] = IdleUpload]
            /\ response' = [op |-> "upload_chunk", status |-> 500,
                            upload_id |-> upload[p].upload_id]
            /\ UNCHANGED chunk_files
    /\ UNCHANGED <<registry_vars, devices, store_vars, decide_vars, session_files,
                   issued_ids, next_file, rotation_log, acked>>

\* received_chunks of the session the request read, with its chunk number
AddReceived_latest(received_chunks, chunk_number) == <<chunk_number>>
AddReceived_append(received_chunks, chunk_number) ==
    SortedList(Append(received_chunks, chunk_number))
AddReceived(received_chunks, chunk_number) ==
    IF \E i \in DOMAIN received_chunks : received_chunks[i] = chunk_number
    THEN received_chunks
    ELSE SortedList(Append(received_chunks, chunk_number))

\* round((len(received_chunks) / total_chunks) * 100, 2), in hundredths of a
\* percent; exact when total_chunks divides 10000 * len(received_chunks), as
\* it does for total_chunks in {-1, 2}
Progress(received_chunks, total_chunks) ==
    IF total_chunks > 0
    THEN (Len(received_chunks) * 10000) \div total_chunks
    ELSE -((Len(received_chunks) * 10000) \div (-total_chunks))

\* upload_chunk, lines 1363-1383: add the number to the session the request
\* read and write the session file
upload_chunk_write(p) ==
    /\ upload[p].pc = "write"
    /\ LET call == upload[p]
           upload_session == [call.session EXCEPT !.received_chunks =
                                 AddReceived(call.session.received_chunks, call.chunk_number)]
       IN /\ session_files' = DictPut(session_files, call.upload_id, upload_session)
          /\ response' = [op |-> "upload_chunk", status |-> 200,
                          upload_id |-> call.upload_id,
                          chunk_number |-> call.chunk_number,
                          received_chunks |-> upload_session.received_chunks,
                          total_chunks |-> upload_session.total_chunks,
                          progress |-> Progress(upload_session.received_chunks,
                                                upload_session.total_chunks)]
    /\ upload' = [upload EXCEPT ![p] = IdleUpload]
    /\ UNCHANGED <<registry_vars, devices, store_vars, decide_vars, chunk_files,
                   issued_ids, next_file, rotation_log>>

Range(s) == {s[i] : i \in DOMAIN s}

\* set(expected_chunks) - set(received_chunks); the reply lists it sorted
MissingChunks(total_chunks, received_chunks) ==
    (0..(total_chunks - 1)) \ Range(received_chunks)

\* set(range(total_chunks)) != set(received_chunks)
AllReceived_some(total_chunks, received_chunks) ==
    Range(received_chunks) \subseteq 0..(total_chunks - 1)
AllReceived(total_chunks, received_chunks) ==
    Range(received_chunks) = 0..(total_chunks - 1)

\* complete_chunked_upload, lines 1431-1454: read the session file, check
\* that every chunk was received, name the final file
complete_chunked_upload_read(p, upload_id) ==
    /\ upload[p].pc = "idle"
    /\ IF upload_id \notin DOMAIN session_files
       THEN /\ response' = [op |-> "complete_chunked_upload", status |-> 404,
                            upload_id |-> upload_id]
            /\ UNCHANGED <<upload, next_file>>
       ELSE IF ~AllReceived(session_files[upload_id].total_chunks,
                            session_files[upload_id].received_chunks)
       THEN /\ response' = [op |-> "complete_chunked_upload", status |-> 400,
                            upload_id |-> upload_id,
                            missing_chunks |->
                                MissingChunks(session_files[upload_id].total_chunks,
                                              session_files[upload_id].received_chunks)]
            /\ UNCHANGED <<upload, next_file>>
       ELSE /\ next_file < MaxFiles
            /\ next_file' = next_file + 1
            /\ upload' = [upload EXCEPT ![p] =
                            [pc |-> "merge", upload_id |-> upload_id, chunk_number |-> 0,
                             chunk_data |-> 0,
                             session |-> session_files[upload_id],
                             final_path |-> VideoPaths[next_file + 1]]]
            /\ response' = [op |-> "complete_chunked_upload_read"]
    /\ UNCHANGED <<registry_vars, devices, store_vars, decide_vars, session_files, chunk_files,
                   issued_ids, rotation_log, acked>>

\* the chunks the merge loop writes before it meets a chunk file that is
\* missing, or one whose read or write raises
MergedChunks(files, upload_id, total_chunks, failing) ==
    {n \in 0..(total_chunks - 1) :
        \A m \in 0..n : <<upload_id, m>> \in DOMAIN files /\ m \notin failing}

\* os.path.getsize of a file made of the chunk files numbered in merged
RECURSIVE MergedSize(_, _, _)
MergedSize(files, upload_id, merged) ==
    IF merged = {}
    THEN 0
    ELSE LET n == CHOOSE m \in merged : TRUE
         IN files[<<upload_id, n>>] + MergedSize(files, upload_id, merged \ {n})

\* complete_chunked_upload, lines 1456-1492: merge the chunk files into the
\* final file.  opened: open(final_path, 'wb') did not raise; failing: the
\* chunk numbers whose read, or whose write to the final file, raises.  The
\* return statements of lines 1468 and 1474 leave the with block, which
\* closes the final file; only the handler of line 1481 removes it.
complete_chunked_upload_merge(p, opened, failing) ==
    /\ upload[p].pc = "merge"
    /\ LET call == upload[p]
           merged == MergedChunks(chunk_files, call.upload_id, call.session.total_chunks,
                                  failing)
           file_size == MergedSize(chunk_files, call.upload_id, merged)
       IN IF ~opened
          THEN /\ upload' = [upload EXCEPT ![p] = IdleUpload]
               /\ response' = [op |-> "complete_chunked_upload", status |-> 500,
                               upload_id |-> call.upload_id, error |-> "merge",
                               final_path |-> call.final_path]
               /\ UNCHANGED video_files
          ELSE IF merged = 0..(call.session.total_chunks - 1)
          THEN /\ video_files' = DictPut(video_files, call.final_path, file_size)
               /\ upload' = [upload EXCEPT ![p].pc = "insert"]
               /\ response' = [op |-> "complete_chunked_upload_merge"]
          ELSE /\ video_files' = DictPut(video_files, call.final_path, file_size)
               /\ upload' = [upload EXCEPT ![p] = IdleUpload]
               /\ response' = [op |-> "complete_chunked_upload", status |-> 500,
                               upload_id |-> call.upload_id, error |-> "merge",
                               final_path |-> call.final_path]
    /\ UNCHANGED <<registry_vars, devices, advertisements, campaigns, decide_vars,
                   session_files, chunk_files, issued_ids, next_file, rotation_log, acked>>

\* AdvertisementModel.create: file_size is stored only when it is not 0
AdvertisementModel_create(video_path, file_size) ==
    IF file_size # 0
    THEN [status |-> "active", video_path |-> video_path, file_size |-> file_size]
    ELSE [status |-> "active", video_path |-> video_path]

\* complete_chunked_upload, lines 1494-1509: insert the advertisement; a
\* duplicate _id raises and the request ends with 500
complete_chunked_upload_insert(p) ==
    /\ upload[p].pc = "insert"
    /\ LET call == upload[p]
           ad_id == call.session.advertisement_id
       IN IF ad_id \in DOMAIN advertisements
          THEN /\ upload' = [upload EXCEPT ![p] = IdleUpload]
               /\ response' = [op |-> "complete_chunked_upload", status |-> 500,
                               upload_id |-> call.upload_id, error |-> "insert",
                               final_path |-> call.final_path]
               /\ UNCHANGED advertisements
          ELSE /\ advertisements' = DictPut(advertisements, ad_id,
                                       AdvertisementModel_create(call.final_path,
                                                                 video_files[call.final_path]))
               /\ upload' = [upload EXCEPT ![p].pc = "cleanup"]
               /\ response' = [op |-> "complete_chunked_upload_insert",
                               upload_id |-> call.upload_id,
                               advertisement_id |-> ad_id,
                               total_chunks |-> call.session.total_chunks,
                               received_chunks |-> call.session.received_chunks]
    /\ UNCHANGED <<registry_vars, devices, video_files, campaigns, decide_vars,
                   session_files, chunk_files, issued_ids, next_file, rotation_log, acked>>

\* complete_chunked_upload, lines 1511-1528: remove the chunk files and the
\* session file, reply
complete_chunked_upload_cleanup(p) ==
    /\ upload[p].pc = "cleanup"
    /\ chunk_files' = cleanup_chunks(chunk_files, upload[p].upload_id)
    /\ session_files' = DictDel(session_files, upload[p].upload_id)
    /\ upload' = [upload EXCEPT ![p] = IdleUpload]
    /\ response' = [op |-> "complete_chunked_upload", status |-> 201,
                    upload_id |-> upload[p].upload_id,
                    size |-> video_files[upload[p].final_path],
                    total_size |-> upload[p].session.total_size,
                    advertisement_id |-> upload[p].session.advertisement_id,
                    total_chunks |-> upload[p].session.total_chunks,
                    received_chunks |-> upload[p].session.received_chunks]
    /\ UNCHANGED <<registry_vars, devices, store_vars, decide_vars, issued_ids, next_file,
                   rotation_log, acked>>

\* cancel_chunked_upload, line 1575: remove the chunk files
cancel_chunked_upload_chunks(p, upload_id) ==
    /\ upload[p].pc = "idle"
    /\ chunk_files' = cleanup_chunks(chunk_files, upload_id)
    /\ upload' = [upload EXCEPT ![p] = [IdleUpload EXCEPT !.pc = "cancel",
                                                          !.upload_id = upload_id]]
    /\ response' = [op |-> "cancel_chunked_upload_chunks"]
    /\ UNCHANGED <<registry_vars, devices, store_vars, decide_vars, session_files,
                   issued_ids, next_file, rotation_log, acked>>

\* cancel_chunked_upload, lines 1577-1587: remove the session file, reply
cancel_chunked_upload_session(p) ==
    /\ upload[p].pc = "cancel"
    /\ session_files' = DictDel(session_files, upload[p].upload_id)
    /\ upload' = [upload EXCEPT ![p] = IdleUpload]
    /\ response' = [op |-> "cancel_chunked_upload", status |-> 200,
                    upload_id |-> upload[p].upload_id]
    /\ UNCHANGED <<registry_vars, devices, store_vars, decide_vars, chunk_files,
                   issued_ids, next_file, rotation_log, acked>>

\* history: the reply 200 of upload_chunk acknowledges its chunk number
AckPut(p) ==
    acked' = [acked EXCEPT ![upload[p].upload_id].numbers = @ \cup {upload[p].chunk_number}]

\* history: the chunk numbers acknowledged for an upload id, in the order of
\* their replies
AckArrival(p) ==
    acked' = [acked EXCEPT ![upload[p].upload_id].order = Append(@, upload[p].chunk_number)]

\* ------------------------------------------------------------------------
\* Chunked download (src/src/app.py device endpoints, src/src/admin_api.py
\* admin endpoints).  Sizes are counted in MiB, as for the upload.
\* ------------------------------------------------------------------------
\* f.seek(start_byte); len(f.read(n)): a negative n reads to the end
ReadLength(file_size, start_byte, n) ==
    IF n < 0 THEN Max(0, file_size - start_byte)
    ELSE Min(n, Max(0, file_size - start_byte))

DownloadError(op, status) == [op |-> op, kind |-> "error", status |-> status]

ChunkResponse_whole(op, chunk_number, chunk_size, file_size, total_chunks) ==
    LET start_byte == chunk_number * chunk_size
        end_byte == start_byte + chunk_size
    IN [op |-> op, kind |-> "chunk", status |-> 200,
        chunk_number |-> chunk_number, chunk_size |-> chunk_size,
        file_size |-> file_size, total_chunks |-> total_chunks,
        start_byte |-> start_byte, end_byte |-> end_byte,
        content_length |-> ReadLength(file_size, start_byte, end_byte - start_byte)]

ChunkResponse(op, chunk_number, chunk_size, file_size, total_chunks) ==
    LET start_byte == chunk_number * chunk_size
        end_byte == Min(start_byte + chunk_size, file_size)
    IN IF start_byte < 0
       THEN DownloadError(op, 500)
       ELSE [op |-> op, kind |-> "chunk", status |-> 200,
             chunk_number |-> chunk_number, chunk_size |-> chunk_size,
             file_size |-> file_size, total_chunks |-> total_chunks,
             start_byte |-> start_byte, end_byte |-> end_byte,
             content_length |-> ReadLength(file_size, start_byte, end_byte - start_byte)]

InfoResponse(op, chunk_size, file_size, total_chunks) ==
    [op |-> op, kind |-> "info", status |-> 200, chunk_size |-> chunk_size,
     file_size |-> file_size, total_chunks |-> total_chunks]

DownloadFrame ==
    UNCHANGED <<registry_vars, devices, store_vars, decide_vars, upload_vars,
                rotation_log, acked>>

\* the reply of device_download_video_info
DeviceInfoReply(advertisement_id, chunk_size) ==
    IF ~VideoExists(advertisement_id)
    THEN DownloadError("device_download_video_info", 404)
    ELSE InfoResponse("device_download_video_info", ClampChunkSize(chunk_size),
                      GetSize(advertisement_id),
                      DeviceTotalChunks(GetSize(advertisement_id),
                                        ClampChunkSize(chunk_size)))

device_download_video_info(advertisement_id, chunk_size) ==
    /\ response' = DeviceInfoReply(advertisement_id, chunk_size)
    /\ DownloadFrame

\* the reply of device_download_video_chunk
DeviceChunkReply(advertisement_id, chunk_number, chunk_size) ==
    IF ~VideoExists(advertisement_id)
    THEN DownloadError("device_download_video_chunk", 404)
    ELSE IF chunk_number < 0 \/ chunk_size <= 0
    THEN DownloadError("device_download_video_chunk", 400)
    ELSE LET size == ClampChunkSize(chunk_size)
             file_size == GetSize(advertisement_id)
             total_chunks == DeviceTotalChunks(file_size, size)
         IN IF chunk_number >= total_chunks
            THEN DownloadError("device_download_video_chunk", 400)
            ELSE ChunkResponse("device_download_video_chunk", chunk_number, size,
                               file_size, total_chunks)

device_download_video_chunk(advertisement_id, chunk_number, chunk_size) ==
    /\ response' = DeviceChunkReply(advertisement_id, chunk_number, chunk_size)
    /\ DownloadFrame

download_video(advertisement_id, use_chunked, chunk_size) ==
    /\ response' =
          IF ~VideoExists(advertisement_id)
          THEN DownloadError("download_video", 404)
          ELSE IF ~use_chunked
          THEN [op |-> "download_video", kind |-> "file", status |-> 200]
          ELSE IF chunk_size = 0
          THEN DownloadError("download_video", 500)
          ELSE InfoResponse("download_video", chunk_size, GetSize(advertisement_id),
                            AdminTotalChunks(GetSize(advertisement_id), chunk_size))
    /\ DownloadFrame

download_video_chunk(advertisement_id, chunk_number, chunk_size) ==
    /\ response' =
          IF ~VideoExists(advertisement_id)
          THEN DownloadError("download_video_chunk", 404)
          ELSE IF chunk_size = 0
          THEN DownloadError("download_video_chunk", 500)
          ELSE LET file_size == GetSize(advertisement_id)
                   total_chunks == AdminTotalChunks(file_size, chunk_size)
               IN IF chunk_number >= total_chunks
                  THEN DownloadError("download_video_chunk", 400)
                  ELSE ChunkResponse("download_video_chunk", chunk_number, chunk_size,
                                     file_size, total_chunks)
    /\ DownloadFrame

\* ------------------------------------------------------------------------
\* Location reports (src/src/app.py handle_location_update, device_heartbeat;
\* src/src/models.py HeartbeatRequest).  Positions lie on the equator: a
\* valid report has latitude 0 and its longitude is the point.
\* ------------------------------------------------------------------------
Longitudes == {-181, -180, 0, 180, 181}
Latitudes == {-91, 91}

\* payloads of the location_update event; data.get gives None for a field
\* the payload does not carry
LocationReports ==
    [device_id : DeviceIds, longitude : Longitudes, latitude : {0}]
        \cup [device_id : {"d1"}, longitude : {0}, latitude : Latitudes]
        \cup [longitude : {0}, latitude : {0}]
        \cup [device_id : {"d1"}, latitude : {0}]
        \cup [device_id : {"d1"}, longitude : {0}]

\* if not device_id or longitude is None or latitude is None
FieldsMissing(data) ==
    \/ "device_id" \notin DOMAIN data
    \/ "longitude" \notin DOMAIN data
    \/ "latitude" \notin DOMAIN data

\* if not (-180 <= longitude <= 180) or not (-90 <= latitude <= 90)
RangeInvalid_lax(longitude, latitude) == FALSE
RangeInvalid(longitude, latitude) ==
    \/ ~(-180 <= longitude /\ longitude <= 180)
    \/ ~(-90 <= latitude /\ latitude <= 90)

\* if sid not in active_connections
NotRegistered(ac, sid) == sid \notin DOMAIN ac

LocationError(sid, error) ==
    [op |-> "location_update", sid |-> sid, event |-> "location_error", error |-> error]

location_update(sid, data, written) ==
    /\ sid_state[sid] = "connected"
    /\ IF FieldsMissing(data)
       THEN /\ response' = LocationError(sid, "missing_fields")
            /\ UNCHANGED <<registry_vars, devices, store_vars, decide_vars, upload_vars,
                           rotation_log, acked>>
       ELSE IF RangeInvalid(data.longitude, data.latitude)
       THEN /\ response' = LocationError(sid, "invalid_range")
            /\ UNCHANGED <<registry_vars, devices, store_vars, decide_vars, upload_vars,
                           rotation_log, acked>>
       ELSE IF NotRegistered(active_connections, sid)
       THEN /\ response' = LocationError(sid, "not_registered")
            /\ UNCHANGED <<registry_vars, devices, store_vars, decide_vars, upload_vars,
                           rotation_log, acked>>
       ELSE DecideQuery(data.device_id, data.longitude, written)

\* bodies of the heartbeat request
HeartbeatBodies ==
    [device_id : {"d1"}, location : [longitude : Longitudes, latitude : {0}]]
        \cup [device_id : {"d1"}, location : [longitude : {0}, latitude : Latitudes]]
        \cup [device_id : {"d1"}]
        \cup [location : [longitude : {0}, latitude : {0}]]
        \cup [device_id : {"d1"}, location : [longitude : {0}] \cup [latitude : {0}]]

\* HeartbeatRequest.validate: the error message, or "none"
HeartbeatRequest_validate(data) ==
    IF "device_id" \notin DOMAIN data \/ "location" \notin DOMAIN data
    THEN "missing_fields"
    ELSE IF \/ "longitude" \notin DOMAIN data.location
            \/ "latitude" \notin DOMAIN data.location
    THEN "missing_coordinates"
    ELSE IF ~(-180 <= data.location.longitude /\ data.location.longitude <= 180)
    THEN "invalid_longitude"
    ELSE IF ~(-90 <= data.location.latitude /\ data.location.latitude <= 90)
    THEN "invalid_latitude"
    ELSE "none"

heartbeat(data, written) ==
    IF HeartbeatRequest_validate(data) # "none"
    THEN /\ response' = [op |-> "heartbeat", status |-> 400,
                         message |-> HeartbeatRequest_validate(data)]
         /\ UNCHANGED <<registry_vars, devices, store_vars, decide_vars, upload_vars,
                           rotation_log, acked>>
    ELSE DecideQuery(data.device_id, data.location.longitude, written)

\* download_request event of a device: the command is sent back to the sid
handle_download_request(sid, advertisement_id) ==
    /\ sid_state[sid] = "connected"
    /\ response' =
          IF NotRegistered(active_connections, sid)
          THEN [op |-> "download_request", event |-> "download_request_error"]
          ELSE IF ~VideoExists(advertisement_id)
          THEN [op |-> "download_request", event |-> "download_request_error"]
          ELSE [op |-> "download_request", event |-> "download_video"]
               @@ DownloadCommand(advertisement_id,
                      DeviceTotalChunks(GetSize(advertisement_id), CHUNK_SIZE))
    /\ DownloadFrame

Init ==
    /\ sid_state = [s \in Sids |-> "unused"]
    /\ active_connections = EmptyDict
    /\ device_to_sid = EmptyDict
    /\ connection_stats = [active_devices |-> 0]
    /\ devices = [d \in DeviceIds |->
                     [groups |-> IF d = "d1" THEN {"g1"} ELSE {"g1", "g2"}, last_location |-> 0]]
    /\ advertisements = [a \in AdIds |->
                            [status |-> "active",
                             video_path |-> IF a = "A" THEN "fA" ELSE NoPath]]
    /\ video_files = [f \in {"fA"} |-> 1]
    /\ campaigns = EmptyDict
    /\ decide = [d \in Deciders |-> IdleCall]
    /\ session_files = EmptyDict
    /\ chunk_files = EmptyDict
    /\ issued_ids = {}
    /\ next_file = 0
    /\ upload = [p \in Uploaders |-> IdleUpload]
    /\ rotation_log = [c \in CampaignIds |-> EmptyLog]
    /\ acked = [u \in UploadIds |-> [numbers |-> {}, order |-> <<>>]]
    /\ response = [op |-> "init"]

NextRegistry ==
    \/ \E sid \in Sids : handle_connect(sid)
    \/ \E sid \in Sids, d \in DeviceIds : handle_register(sid, d)
    \/ \E sid \in Sids : handle_disconnect(sid)
    \/ \E d \in DeviceIds : create_device(d, {"g1"})
    \/ \E d \in DeviceIds : delete_device(d)

SpecRegistry == Init /\ [][NextRegistry]_vars

\* the push dispatcher over a registry fed by two connections
PushSids == {"h1", "h2"}

NextPush ==
    \/ \E sid \in PushSids : handle_connect(sid)
    \/ \E sid \in PushSids, d \in DeviceIds : handle_register(sid, d)
    \/ \E sid \in PushSids : handle_disconnect(sid)
    \/ \E t \in TargetLists, a \in AdIds : \E ok \in [1..Len(t) -> BOOLEAN] :
          admin_override(t, a, ok)
    \/ \E t \in TargetLists, a \in AdIds : \E ok \in [1..Len(t) -> BOOLEAN] :
          push_download_command(t, a, ok)
    \/ \E t \in BatchTargetLists, ads \in BatchAdLists :
          \E ok \in [1..Len(ads) -> [1..Len(t) -> BOOLEAN]] :
              batch_push_download(t, ads, ok)

SpecPush == Init /\ [][NextPush]_vars

\* decisions for different devices, all reporting the same position, run
\* concurrently with each other and with the administration requests
NextDecide ==
    \/ \E d \in DeviceIds : DecideQuery(d, 0, TRUE)
    \/ \E d \in DeviceIds : DecideScan(d)
    \/ \E d \in DeviceIds : DecideWrite(d) /\ LogKeep
    \/ \E c \in CampaignIds, req \in CampaignRequests : create_campaign(c, req) /\ LogKeep
    \/ \E c \in CampaignIds : delete_campaign(c) /\ LogKeep
    \/ \E status \in {"active", "inactive"} : update_advertisement("B", status)

SpecDecide == Init /\ [][NextDecide]_vars

\* requests served one at a time: a request starts only when no decision is
\* in flight
AllIdle == \A d \in Deciders : decide[d].pc = "idle"

NextDecideSeq ==
    \/ \E d \in Deciders, point \in Points, written \in BOOLEAN :
          AllIdle /\ DecideQuery(d, point, written)
    \/ \E d \in Deciders : DecideScan(d)
    \/ \E d \in Deciders : DecideWrite(d) /\ LogDecision(d)
    \/ \E c \in CampaignIds, req \in CampaignRequests :
          AllIdle /\ create_campaign(c, req) /\ LogResetGone
    \/ \E c \in CampaignIds : AllIdle /\ delete_campaign(c) /\ LogResetGone
    \/ \E a \in {"B", "C"}, status \in {"active", "inactive"} :
          AllIdle /\ update_advertisement(a, status)
    \/ AllIdle /\ delete_advertisement("C") /\ LogResetGone

SpecDecideSeq == Init /\ [][NextDecideSeq]_vars

\* one device connects and registers, reports its position and gets
\* decisions, while campaigns are created and deleted
RevertSid == "h1"
RevertDevice == "d1"

NextRevert ==
    \/ handle_connect(RevertSid)
    \/ handle_register(RevertSid, RevertDevice)
    \/ handle_disconnect(RevertSid)
    \/ AllIdle /\ DecideQuery(RevertDevice, 0, TRUE)
    \/ DecideScan(RevertDevice)
    \/ DecideWrite(RevertDevice) /\ LogKeep
    \/ \E c \in CampaignIds, req \in CampaignRequests :
          AllIdle /\ create_campaign(c, req) /\ LogKeep
    \/ \E c \in CampaignIds : AllIdle /\ delete_campaign(c) /\ LogKeep

SpecRevert == Init /\ [][NextRevert]_vars

\* upload requests of two workers, interleaved step by step; init is
\* requested until an upload id is issued
NextUpload ==
    \/ \E u \in SingleUploadIds, s \in TotalSizeChoices, n \in TotalChunksChoices,
          a \in UploadAdIds :
          u \notin issued_ids /\ init_chunked_upload(u, s, n, a)
    \/ \E p \in Uploaders, u \in SingleUploadIds, n \in ChunkNumbers :
          upload_chunk_read(p, u, n, 1)
    \/ \E p \in Uploaders, saved \in BOOLEAN : upload_chunk_save(p, saved)
    \/ \E p \in Uploaders : upload_chunk_write(p) /\ AckPut(p)
    \/ \E p \in Uploaders, u \in SingleUploadIds : complete_chunked_upload_read(p, u)
    \/ \E p \in Uploaders : complete_chunked_upload_merge(p, TRUE, {})
    \/ \E p \in Uploaders : complete_chunked_upload_insert(p)
    \/ \E p \in Uploaders : complete_chunked_upload_cleanup(p)
    \/ \E p \in Uploaders, u \in SingleUploadIds : cancel_chunked_upload_chunks(p, u)
    \/ \E p \in Uploaders : cancel_chunked_upload_session(p)

SpecUpload == Init /\ [][NextUpload]_vars

\* upload requests served one at a time by one worker, with chunk bodies of
\* different sizes and I/O failures in the merge; an upload id takes at most
\* MaxArrivals acknowledged chunks
SeqUploader == "p1"
MaxArrivals == 3

NextUploadSeq ==
    \/ \E u \in SingleUploadIds, s \in TotalSizeChoices, n \in TotalChunksChoices,
          a \in UploadAdIds :
          init_chunked_upload(u, s, n, a)
    \/ \E u \in SingleUploadIds, n \in ChunkNumbers, data \in ChunkSizes :
          /\ Len(acked[u].order) < MaxArrivals
          /\ upload_chunk_read(SeqUploader, u, n, data)
    \/ \E saved \in BOOLEAN : upload_chunk_save(SeqUploader, saved)
    \/ upload_chunk_write(SeqUploader) /\ AckArrival(SeqUploader)
    \/ \E u \in SingleUploadIds : complete_chunked_upload_read(SeqUploader, u)
    \/ \E opened \in BOOLEAN, failing \in SUBSET {0, 1} :
          complete_chunked_upload_merge(SeqUploader, opened, failing)
    \/ complete_chunked_upload_insert(SeqUploader)
    \/ complete_chunked_upload_cleanup(SeqUploader)
    \/ \E u \in SingleUploadIds : cancel_chunked_upload_chunks(SeqUploader, u)
    \/ cancel_chunked_upload_session(SeqUploader)

SpecUploadSeq == Init /\ [][NextUploadSeq]_vars

\* two uploads of one chunk each, served one at a time by one worker
NextUploadPair ==
    \/ \E u \in UploadIds, s \in {2, MAX_FILE_SIZE + 1}, n \in {1, MAX_CHUNKS + 1},
          a \in UploadAdIds :
          init_chunked_upload(u, s, n, a)
    \/ \E u \in UploadIds, n \in {0, 1} :
          upload_chunk_read(SeqUploader, u, n, 2)
    \/ upload_chunk_save(SeqUploader, TRUE)
    \/ upload_chunk_write(SeqUploader) /\ UNCHANGED acked
    \/ \E u \in UploadIds : complete_chunked_upload_read(SeqUploader, u)
    \/ complete_chunked_upload_merge(SeqUploader, TRUE, {})
    \/ complete_chunked_upload_insert(SeqUploader)
    \/ complete_chunked_upload_cleanup(SeqUploader)
    \/ \E u \in UploadIds : cancel_chunked_upload_chunks(SeqUploader, u)
    \/ cancel_chunked_upload_session(SeqUploader)

SpecUploadPair == Init /\ [][NextUploadPair]_vars

\* one video of one chunk is uploaded, and the videos are downloaded through
\* the device and the admin endpoints
NextDownload ==
    \/ init_chunked_upload("u1", 25, 1, "N")
    \/ \E data \in DownloadFileSizes : upload_chunk_read(SeqUploader, "u1", 0, data)
    \/ upload_chunk_save(SeqUploader, TRUE)
    \/ upload_chunk_write(SeqUploader) /\ UNCHANGED acked
    \/ complete_chunked_upload_read(SeqUploader, "u1")
    \/ complete_chunked_upload_merge(SeqUploader, TRUE, {})
    \/ complete_chunked_upload_insert(SeqUploader)
    \/ complete_chunked_upload_cleanup(SeqUploader)
    \/ \E a \in DownloadAdIds, size \in DownloadChunkSizes :
          device_download_video_info(a, size)
    \/ \E a \in DownloadAdIds, n \in DownloadChunkNumbers, size \in DownloadChunkSizes :
          device_download_video_chunk(a, n, size)
    \/ \E a \in DownloadAdIds, use_chunked \in BOOLEAN, size \in DownloadChunkSizes :
          download_video(a, use_chunked, size)
    \/ \E a \in DownloadAdIds, n \in DownloadChunkNumbers, size \in DownloadChunkSizes :
          download_video_chunk(a, n, size)
    \/ handle_connect("h1")
    \/ handle_register("h1", "d1")
    \/ \E a \in DownloadAdIds : handle_download_request("h1", a)
    \/ \E a \in DownloadAdIds : push_download_command(<<"d1">>, a, <<TRUE>>)
    \/ batch_push_download(<<"d1">>, <<"N", "A">>, <<(<<TRUE>>), (<<TRUE>>)>>)

SpecDownload == Init /\ [][NextDownload]_vars

\* handles connect and register, and send location reports and heartbeats,
\* served one at a time, while a campaign exists
LocationSids == {"h1"}

NextLocation ==
    \/ \E sid \in LocationSids : handle_connect(sid)
    \/ \E sid \in LocationSids, d \in DeviceIds : handle_register(sid, d)
    \/ \E sid \in LocationSids, data \in LocationReports, written \in BOOLEAN :
          AllIdle /\ location_update(sid, data, written)
    \/ \E data \in HeartbeatBodies, written \in BOOLEAN :
          AllIdle /\ heartbeat(data, written)
    \/ \E d \in Deciders : DecideScan(d)
    \/ \E d \in Deciders : DecideWrite(d) /\ LogKeep
    \/ AllIdle /\ create_campaign("c1", CHOOSE req \in CampaignRequests :
                                          req.advertisement_ids = <<"A", "B", "C">>)
               /\ LogKeep

SpecLocation == Init /\ [][NextLocation]_vars

\* ------------------------------------------------------------------------
\* Properties: session registry
\* ------------------------------------------------------------------------

SessionsOf(device_id) ==
    {h \in DOMAIN active_connections : active_connections[h].device_id = device_id}

\* C1: at most one live session entry exists per device id, and a successful
\* registration of device D on handle H2 while D was bound to H1 leaves
\* resolve(D) = H2 and no session entry for H1.
C1_OneSessionPerDevice ==
    /\ \A d \in DeviceIds : Cardinality(SessionsOf(d)) <= 1
    /\ (response.op = "register" /\ response.event = "registration_success") =>
          /\ get_device_sid(device_to_sid, response.device_id) = response.sid
          /\ (response.old_sid \notin {NoSid, response.sid} =>
                 response.old_sid \notin DOMAIN active_connections)

\* a registration just moved a device from a live session on another handle
C1_Witness ==
    /\ response.op = "register"
    /\ response.event = "registration_success"
    /\ response.old_sid \notin {NoSid, response.sid}
    /\ response.old_live

\* C2: once the disconnect of handle H has been processed, no device id
\* resolves to H.
C2_NoStaleBinding ==
    \A h \in Sids : sid_state[h] = "closed" =>
        \A d \in DOMAIN device_to_sid : device_to_sid[d] # h

\* ------------------------------------------------------------------------
\* Properties: push dispatcher
\* ------------------------------------------------------------------------
IsPushResult == response.op \in {"admin_override", "push_download"} /\ response.status = 200

Occurrences(s, x) == Cardinality({i \in DOMAIN s : s[i] = x})

Delivered(i) ==
    /\ get_device_sid(device_to_sid, response.target_device_ids[i]) # NoSid
    /\ response.emit_ok[i]

\* C10 as stated: for any target list the sent and offline lists are
\* disjoint, their union is the target list, the counts add up, and a target
\* is in sent exactly when it resolved to a handle and its emit did not raise.
C10_DisjointForAnyTargets ==
    IsPushResult =>
        /\ Range(response.sent) \cap Range(response.offline) = {}
        /\ Range(response.sent) \cup Range(response.offline) = Range(response.target_device_ids)
        /\ response.sent_count + response.offline_count = response.total_targets
        /\ \A d \in Range(response.target_device_ids) :
              d \in Range(response.sent) <=>
                 \E i \in DOMAIN response.target_device_ids :
                    response.target_device_ids[i] = d /\ Delivered(i)

\* C10 (amended): every occurrence of a target lands in exactly one of the
\* two lists, in sent exactly when it resolved to a handle and its emit did
\* not raise; hence the union is the target list and the counts add up; the
\* lists are disjoint whenever the target list repeats no device id.
C10_PartitionByOccurrence ==
    IsPushResult =>
        LET t == response.target_device_ids IN
        /\ \A d \in DeviceIds :
              /\ Occurrences(response.sent, d) =
                    Cardinality({i \in DOMAIN t : t[i] = d /\ Delivered(i)})
              /\ Occurrences(response.offline, d) =
                    Cardinality({i \in DOMAIN t : t[i] = d /\ ~Delivered(i)})
        /\ Range(response.sent) \cup Range(response.offline) = Range(t)
        /\ response.sent_count = Len(response.sent)
        /\ response.offline_count = Len(response.offline)
        /\ response.sent_count + response.offline_count = response.total_targets
        /\ response.total_targets = Len(t)
        /\ (\A i, j \in DOMAIN t : i # j => t[i] # t[j]) =>
              Range(response.sent) \cap Range(response.offline) = {}

\* a push to a mixed list: one target delivered, one offline
C10_Witness ==
    /\ IsPushResult
    /\ \E i, j \in DOMAIN response.target_device_ids :
          /\ Delivered(i)
          /\ get_device_sid(device_to_sid, response.target_device_ids[j]) = NoSid
    /\ response.sent # <<>>
    /\ response.offline # <<>>

\* ------------------------------------------------------------------------
\* Properties: decision engine
\* ------------------------------------------------------------------------
IsDecision == response.op = "decide_ad" /\ response.outcome = "play"

RotationIndexOf(c) == DictGet(campaigns[c], "current_ad_index", 0)

\* C5: in every reachable state, concurrent decisions included, the rotation
\* index of each campaign lies in [0, length of its ad list); a campaign just
\* created has index 0 and a non-empty ad list; every advancement writes
\* (selected position + 1) mod list length.
C5_RotationIndexInRange ==
    /\ \A c \in DOMAIN campaigns :
          /\ Len(AdListOf(campaigns[c])) > 0
          /\ RotationIndexOf(c) >= 0
          /\ RotationIndexOf(c) < Len(AdListOf(campaigns[c]))
    /\ (response.op = "create_campaign" /\ response.status = 201) =>
          /\ response.campaign_id \in DOMAIN campaigns
          /\ AdListOf(campaigns[response.campaign_id]) # <<>>
          /\ RotationIndexOf(response.campaign_id) = 0
    /\ IsDecision =>
          response.next_index =
              (response.selected_index + 1) % Len(response.advertisement_ids)

Eligible(c, d, point) ==
    /\ c \in DOMAIN campaigns
    /\ d \in DOMAIN devices
    /\ campaigns[c].status = "active"
    /\ point \in campaigns[c].geo_fence
    /\ campaigns[c].target_groups \cap devices[d].groups # {}

PriorityOf(c) == DictGet(campaigns[c], "priority", 0)

\* C6: the campaign named by a decision returned for device d at point p is
\* active, its geofence contains p, and its target groups share a group with
\* the groups of d.
C6_DecisionCampaignEligible ==
    IsDecision => Eligible(response.campaign_id, response.device_id, response.point)

\* a decision was returned while another stored campaign was not eligible
C6_Witness ==
    /\ IsDecision
    /\ \E o \in DOMAIN campaigns : ~Eligible(o, response.device_id, response.point)

\* C7: no campaign eligible for the device and point of a returned decision
\* has a strictly higher priority than the campaign the decision names.
C7_MaxPriorityCampaign ==
    IsDecision =>
        \A o \in DOMAIN campaigns :
            Eligible(o, response.device_id, response.point) =>
                PriorityOf(o) <= PriorityOf(response.campaign_id)

\* eligible priorities 5 and 10: the decision names the priority-10 campaign
C7_Witness ==
    /\ IsDecision
    /\ PriorityOf(response.campaign_id) = 10
    /\ \E o \in DOMAIN campaigns :
          /\ Eligible(o, response.device_id, response.point)
          /\ PriorityOf(o) = 5

\* C8: successive, non-concurrent decisions that select a campaign and skip
\* no ad return the ads of its list in order, wrapping around: the k-th one
\* (counting from 0) returns the ad at position (start + k) mod list length.
C8_RoundRobin ==
    \A c \in CampaignIds :
        rotation_log[c].ads # <<>> =>
            /\ c \in DOMAIN campaigns
            /\ LET ids == AdListOf(campaigns[c])
                   log == rotation_log[c]
               IN \A k \in 1..Len(log.ads) :
                     log.ads[k] = ids[((log.start + (k - 1)) % Len(ids)) + 1]

\* list [A,B,C] from index 0: A, then B, then C, then A again
C8_Witness ==
    \E c \in DOMAIN campaigns :
        /\ AdListOf(campaigns[c]) = <<"A", "B", "C">>
        /\ rotation_log[c].start = 0
        /\ rotation_log[c].ads = <<"A", "B", "C", "A">>

\* number of list positions the scan passed over before the returned one
Skipped == (response.selected_index - response.start_index
              + Len(response.advertisement_ids)) % Len(response.advertisement_ids)

\* C9: a returned decision names the first ad, scanning circularly from the
\* current rotation index, that exists and is active; the rotation index is
\* then the position after the returned ad; the scan ends with no decision
\* only if no ad of the list is active.
C9_SkipToFirstActive ==
    /\ IsDecision =>
          LET ids == response.advertisement_ids IN
          /\ response.advertisement_id = ids[response.selected_index + 1]
          /\ response.advertisement_id \in DOMAIN advertisements
          /\ advertisements[response.advertisement_id].status = "active"
          /\ \A j \in 0..(Skipped - 1) :
                LET a == ids[((response.start_index + j) % Len(ids)) + 1]
                IN a \notin DOMAIN advertisements \/ advertisements[a].status # "active"
          /\ response.campaign_id \in DOMAIN campaigns
          /\ RotationIndexOf(response.campaign_id) =
                 (response.selected_index + 1) % Len(ids)
    /\ (response.op = "decide_ad" /\ response.reason = "no_active_ad") =>
          \A i \in DOMAIN response.advertisement_ids :
              LET a == response.advertisement_ids[i]
              IN a \notin DOMAIN advertisements \/ advertisements[a].status # "active"

\* rotation started at inactive B returns C and leaves the index after C
C9_Witness ==
    /\ IsDecision
    /\ response.advertisement_ids = <<"A", "B", "C">>
    /\ response.start_index = 1
    /\ "B" \in DOMAIN advertisements
    /\ advertisements["B"].status = "inactive"
    /\ response.advertisement_id = "C"
    /\ RotationIndexOf(response.campaign_id) = 0

\* ------------------------------------------------------------------------
\* Properties: chunked upload
\* ------------------------------------------------------------------------
\* the request registered an advertisement, or replied 201 after doing so
Registered ==
    \/ response.op = "complete_chunked_upload_insert"
    \/ response.op = "complete_chunked_upload" /\ response.status = 201

\* C3: a completion registers an advertisement, and succeeds, only from a
\* session whose received set is exactly {0, ..., total_chunks - 1}: no index
\* missing and none outside the range, whatever init, chunk upload, complete
\* and cancel requests interleave with it.
C3_CompleteNeedsEveryChunk ==
    Registered =>
        /\ \A n \in 0..(response.total_chunks - 1) : n \in Range(response.received_chunks)
        /\ \A n \in Range(response.received_chunks) : n >= 0 /\ n < response.total_chunks

\* a two-chunk upload completed while another request was in flight
C3_Witness ==
    /\ response.op = "complete_chunked_upload"
    /\ response.status = 201
    /\ response.total_chunks = 2
    /\ \E p \in Uploaders : upload[p].pc # "idle"

PutInFlight(u) ==
    \E p \in Uploaders : upload[p].pc \in {"save", "write"} /\ upload[p].upload_id = u

\* C4: once the chunk uploads for an upload id have all returned, the
\* received set of its session holds every chunk number in range whose
\* upload returned 200, however their steps interleaved.
C4_NoLostUpdate ==
    \A u \in DOMAIN session_files :
        ~PutInFlight(u) =>
            \A n \in acked[u].numbers \cap 0..(session_files[u].total_chunks - 1) :
                n \in Range(session_files[u].received_chunks)

\* the chunk numbers acknowledged for a live upload id are exactly those of
\* its range
AllAcknowledged(u) ==
    Range(acked[u].order) = 0..(session_files[u].total_chunks - 1)

\* C11: with requests served one at a time, once the chunk uploads
\* acknowledged for a session are those of every index 0..total_chunks-1, in
\* whatever order and with whatever repeats they arrived, the session passes
\* the completeness check; a complete request on it is never answered 400,
\* and fails only with the 500 of an I/O failure in the merge.
C11_AnyOrderCompletes ==
    /\ \A u \in DOMAIN session_files :
          AllAcknowledged(u) =>
              Range(session_files[u].received_chunks) =
                  0..(session_files[u].total_chunks - 1)
    /\ /\ response.op = "complete_chunked_upload"
       /\ response.status \notin {201, 404}
       /\ response.upload_id \in DOMAIN session_files
       /\ AllAcknowledged(response.upload_id)
       => response.status = 500 /\ response.error = "merge"

\* chunk 1 arrived first, then chunk 0, then chunk 1 again, and the upload
\* completed
C11_Witness ==
    /\ response.op = "complete_chunked_upload"
    /\ response.status = 201
    /\ acked[response.upload_id].order = <<1, 0, 1>>

\* C12: whenever complete succeeds, the size of the merged final file equals
\* the total_size declared at init for the session.
C12_MergedSizeIsDeclaredSize ==
    response.op = "complete_chunked_upload" /\ response.status = 201 =>
        response.size = response.total_size

\* C13: a complete request on a session with chunks missing is answered 400
\* and lists exactly the indices of 0..total_chunks-1 that are not in the
\* received set; the session file and the chunk files received stay, so that
\* once the listed chunks are uploaded the received set is the expected set
\* and complete succeeds.
C13_IncompleteListsMissing ==
    response.op = "complete_chunked_upload" /\ response.status = 400 =>
        LET u == response.upload_id
        IN /\ u \in DOMAIN session_files
           /\ response.missing_chunks =
                  {n \in 0..(session_files[u].total_chunks - 1) :
                      n \notin Range(session_files[u].received_chunks)}
           /\ \A n \in Range(session_files[u].received_chunks) :
                  <<u, n>> \in DOMAIN chunk_files
           /\ Range(session_files[u].received_chunks) \cup response.missing_chunks =
                  0..(session_files[u].total_chunks - 1)

\* C14: when the merge of a complete request fails (a chunk file is missing,
\* or a read or a write raises), no final file is left behind, no
\* advertisement is registered, and the session file and every chunk file of
\* the session are still there for a retry.
C14_FailedMergeRollsBack ==
    /\ response.op = "complete_chunked_upload"
    /\ response.status = 500
    /\ response.error = "merge"
    => LET u == response.upload_id
       IN /\ response.final_path \notin DOMAIN video_files
          /\ \A a \in DOMAIN advertisements :
                 advertisements[a].video_path # response.final_path
          /\ u \in DOMAIN session_files
          /\ session_files[u].advertisement_id \notin DOMAIN advertisements
          /\ \A n \in Range(session_files[u].received_chunks) :
                 <<u, n>> \in DOMAIN chunk_files

\* the advertisements registered by complete requests
UploadedAds ==
    {a \in DOMAIN advertisements :
        \E i \in DOMAIN VideoPaths : advertisements[a].video_path = VideoPaths[i]}

\* C15: with requests served one at a time, a complete request answered 201
\* has registered exactly one advertisement, under the target id of its
\* session, and has removed the session file and every chunk file of its
\* upload id; from then on every upload_chunk and every complete request
\* with that upload id is answered 404.
C15_CompleteConsumesSession ==
    /\ response.op = "complete_chunked_upload" /\ response.status = 201 =>
          UploadedAds = {response.advertisement_id}
    /\ \A u \in SingleUploadIds :
          UploadedAds # {} /\ upload[SeqUploader].pc # "cleanup" =>
              /\ u \notin DOMAIN session_files
              /\ \A f \in DOMAIN chunk_files : f[1] # u
              /\ Cardinality(UploadedAds) = 1
              /\ /\ response.op \in {"upload_chunk", "complete_chunked_upload"}
                 /\ response.upload_id = u
                 /\ response.status # 404
                 => response.op = "complete_chunked_upload" /\ response.status = 201

\* an upload_chunk request answered 404 after its two-chunk upload was
\* completed
C15_Witness ==
    /\ UploadedAds # {}
    /\ response.op = "upload_chunk"
    /\ response.status = 404
    /\ acked[response.upload_id].order = <<0, 1>>

\* C16: with requests served one at a time, a cancel request is answered
\* 200 for every upload id, whether its session is live, cancelled,
\* completed or was never created, and leaves neither the session file nor
\* any chunk file of that id; a second cancel finds, and leaves, the same
\* state.
C16_CancelRemovesEverything ==
    response.op = "cancel_chunked_upload" =>
        /\ response.status = 200
        /\ response.upload_id \notin DOMAIN session_files
        /\ \A f \in DOMAIN chunk_files : f[1] # response.upload_id

\* C17: an upload_chunk request whose upload id has no session file is
\* answered 404, and one whose chunk number is total_chunks or more is
\* answered 400; neither stores a chunk file nor changes a session file.
C17_RejectedPutChangesNothing ==
    [][\A p \in Uploaders, u \in UploadIds, n \in ChunkNumbers, data \in ChunkSizes :
          upload_chunk_read(p, u, n, data) =>
              /\ u \notin DOMAIN session_files =>
                    /\ response' = [op |-> "upload_chunk", status |-> 404, upload_id |-> u]
                    /\ UNCHANGED <<session_files, chunk_files, upload>>
              /\ u \in DOMAIN session_files /\ n >= session_files[u].total_chunks =>
                    /\ response' = [op |-> "upload_chunk", status |-> 400, upload_id |-> u]
                    /\ UNCHANGED <<session_files, chunk_files, upload>>]_vars

\* a chunk number out of range was refused while the other upload had a
\* chunk received
C17_Witness ==
    /\ response.op = "upload_chunk"
    /\ response.status = 400
    /\ \E v \in DOMAIN session_files :
          v # response.upload_id /\ session_files[v].received_chunks = <<0>>

\* C18: with requests served one at a time, an upload_chunk request for a
\* chunk number that is already in the received set stores the new body in
\* place of the old chunk file and leaves the received list, its length and
\* the progress it reports as they were.
C18_RepeatedPutCountsOnce ==
    [][LET call == upload[SeqUploader]
           u == call.upload_id
           n == call.chunk_number
       IN /\ upload_chunk_save(SeqUploader, TRUE) /\ <<u, n>> \in DOMAIN chunk_files =>
                /\ chunk_files'[<<u, n>>] = call.chunk_data
                /\ DOMAIN chunk_files' = DOMAIN chunk_files
                /\ \A f \in DOMAIN chunk_files : f # <<u, n>> => chunk_files'[f] = chunk_files[f]
          /\ /\ upload_chunk_write(SeqUploader)
             /\ u \in DOMAIN session_files
             /\ n \in Range(session_files[u].received_chunks)
             => /\ session_files' = session_files
                /\ response'.status = 200
                /\ response'.received_chunks = session_files[u].received_chunks
                /\ response'.progress =
                       Progress(session_files[u].received_chunks,
                                session_files[u].total_chunks)]_vars

\* chunk 0 was uploaded twice and the second reply reports one chunk of two
C18_Witness ==
    /\ response.op = "upload_chunk"
    /\ response.status = 200
    /\ acked[response.upload_id].order = <<0, 0>>
    /\ response.received_chunks = <<0>>
    /\ response.progress = 5000

\* C19: an init request whose total_size is above MAX_FILE_SIZE is answered
\* 400 with the size message, and one whose total_chunks is above MAX_CHUNKS
\* is answered 400 with the count message (the size message when both are
\* above, the message of the missing field when the other value is 0); in
\* every case no session file is written and nothing but the reply changes.
C19_InitLimits ==
    [][\A u \in UploadIds, s \in TotalSizeChoices \cup {1}, n \in TotalChunksChoices \cup {1},
          a \in UploadAdIds :
          /\ init_chunked_upload(u, s, n, a)
          /\ s > MAX_FILE_SIZE \/ n > MAX_CHUNKS
          => /\ response'.op = "init_chunked_upload"
             /\ response'.status = 400
             /\ s > MAX_FILE_SIZE /\ n # 0 => response'.error = "size"
             /\ s \in 1..MAX_FILE_SIZE => response'.error = "count"
             /\ UNCHANGED <<registry_vars, devices, store_vars, decide_vars, upload_vars,
                            rotation_log, acked>>]_vars

\* an init refused for its chunk count while a session was live
C19_Witness ==
    /\ response.op = "init_chunked_upload"
    /\ response.status = 400
    /\ response.error = "count"
    /\ session_files # EmptyDict

\* C20: the target advertisement id init gives a new session is the id of
\* no registered advertisement and of no other live session.
C20_UniqueTargetId ==
    response.op = "init_chunked_upload" /\ response.status = 200 =>
        LET u == response.upload_id
        IN /\ session_files[u].advertisement_id \notin DOMAIN advertisements
           /\ \A v \in DOMAIN session_files :
                  v # u => session_files[v].advertisement_id # session_files[u].advertisement_id

\* ------------------------------------------------------------------------
\* Properties: callers of the decision engine
\* ------------------------------------------------------------------------
\* C21: a decision request for a device id that is not in the store is
\* answered 404 on the heartbeat path, and a request of a stored device that
\* ends with no decision is answered differently.
C21_DeviceNotFoundDistinct ==
    response.op = "decide_ad" /\ response.outcome = "none" =>
        /\ response.reason = "device_not_found" =>
              response.callers.heartbeat.status = 404
        /\ response.reason # "device_not_found" =>
              response.callers.heartbeat # Callers(None, UnknownDevice).heartbeat

\* C22: when the device is stored and no campaign is eligible at its
\* position, neither caller pushes a play command and neither reports an
\* error to the requester.
C22_NoDecisionIsNoOp ==
    response.op = "decide_ad" /\ response.reason = "no_campaign" =>
        /\ ~response.callers.location_update.play_ad
        /\ response.callers.location_update.reply # "location_error"
        /\ ~response.callers.heartbeat.play_ad
        /\ response.callers.heartbeat.status < 400

\* the decision the engine returns for the device at the point when the
\* position write succeeds: some campaign it can select has an active ad
WouldPlay(d, point) ==
    LET eligible == EligibleCampaigns(campaigns, devices[d].groups, point)
    IN \E c \in eligible :
          /\ IsMaxPriority(campaigns, eligible, c)
          /\ AdListOf(campaigns[c]) # <<>>
          /\ ScanAds(advertisements, AdListOf(campaigns[c]),
                     StartIndex(campaigns[c], Len(AdListOf(campaigns[c])))).found

\* C23: when the write of the device's position fails, the decision goes
\* on: the engine returns no advertisement only if it would have returned
\* none after a successful write.
C23_PositionWriteBestEffort ==
    response.op = "decide_ad" /\ response.reason = "exception" =>
        ~WouldPlay(response.device_id, response.point)

\* ------------------------------------------------------------------------
\* Properties: registry and administration
\* ------------------------------------------------------------------------
\* C24: a register event for a device id that is not in the store is
\* answered registration_error and leaves the session registry as it was:
\* no binding is added and none is evicted.
C24_UnknownDeviceRegistration ==
    [][\A sid \in Sids, d \in DeviceIds :
          handle_register(sid, d) /\ d \notin DOMAIN devices =>
              /\ response'.op = "register"
              /\ response'.event = "registration_error"
              /\ UNCHANGED <<active_connections, device_to_sid, connection_stats>>]_vars

\* a registration refused for a deleted device that is still bound to
\* another handle
C24_Witness ==
    /\ response.op = "register"
    /\ response.event = "registration_error"
    /\ response.device_id \in DOMAIN device_to_sid
    /\ device_to_sid[response.device_id] # response.sid

\* C25: unregister_device on a bound handle removes the handle's session
\* entry and the entry of its device, which pointed at this handle, and
\* returns the device id; on a handle without a session entry it returns
\* none and changes nothing, so the late disconnect of an evicted handle
\* leaves the binding of its former device to the new handle alone.  A
\* second call on the same handle returns none and changes nothing.
C25_UnregisterSemantics ==
    [][\A sid \in Sids :
          handle_disconnect(sid) =>
              /\ IF sid \in DOMAIN active_connections
                 THEN LET device_id == active_connections[sid].device_id
                      IN /\ response' = [op |-> "disconnect", sid |-> sid,
                                         device_id |-> device_id]
                         /\ get_device_sid(device_to_sid, device_id) = sid
                         /\ active_connections' = DictDel(active_connections, sid)
                         /\ device_to_sid' = DictDel(device_to_sid, device_id)
                 ELSE /\ response' = [op |-> "disconnect", sid |-> sid,
                                      device_id |-> NoDevice]
                      /\ UNCHANGED <<active_connections, device_to_sid,
                                     connection_stats>>
              /\ LET again == unregister_device(active_connections', device_to_sid',
                                                connection_stats', sid)
                 IN /\ again.returned = NoDevice
                    /\ again.active_connections = active_connections'
                    /\ again.device_to_sid = device_to_sid'
                    /\ again.active_devices = connection_stats'.active_devices]_vars

\* the late disconnect of a handle that had registered and was evicted,
\* while another device is bound to a live handle
C25_Witness ==
    /\ response.op = "disconnect"
    /\ response.device_id = NoDevice
    /\ \E d \in DOMAIN device_to_sid : device_to_sid[d] = response.sid
    /\ \E d \in DOMAIN device_to_sid :
          /\ device_to_sid[d] # response.sid
          /\ device_to_sid[d] \in DOMAIN active_connections

\* the outcome lists of one fan-out give every position of the target list
\* the outcome of its own lookup and emit, in the order of the list
OwnOutcomes(target_device_ids, emit_ok, sent, offline) ==
    LET Reached(i) == /\ get_device_sid(device_to_sid, target_device_ids[i]) # NoSid
                        /\ emit_ok[i]
        Before(i) == Cardinality({j \in 1..(i-1) : Reached(j)})
    IN /\ Len(sent) + Len(offline) = Len(target_device_ids)
       /\ \A i \in 1..Len(target_device_ids) :
             IF Reached(i)
             THEN sent[Before(i) + 1] = target_device_ids[i]
             ELSE offline[i - Before(i)] = target_device_ids[i]

\* C26: in a push to many devices an emit that raises or a target that is
\* offline does not end the loop: every target of the list, the ones after
\* the failure included, gets the outcome of its own lookup and emit, and
\* the request is answered with success.
C26_FanOutNotAborted ==
    /\ response.op \in {"admin_override", "push_download"} /\ response.status \notin {400, 404} =>
          /\ response.status = 200
          /\ OwnOutcomes(response.target_device_ids, response.emit_ok,
                         response.sent, response.offline)
    /\ response.op = "batch_push_download" /\ response.status # 400 =>
          /\ response.status = 200
          /\ Len(response.batch_results) = Len(response.advertisement_ids)
          /\ \A k \in 1..Len(response.batch_results) :
                response.batch_results[k].status = "success" =>
                    OwnOutcomes(response.target_device_ids, response.emit_ok[k],
                                response.batch_results[k].sent_to,
                                response.batch_results[k].offline_devices)

\* a push whose first target is connected and whose emit raises, and whose
\* second target is delivered
C26_Witness ==
    /\ response.op \in {"admin_override", "push_download"}
    /\ response.status = 200
    /\ Len(response.target_device_ids) = 2
    /\ get_device_sid(device_to_sid, response.target_device_ids[1]) # NoSid
    /\ ~response.emit_ok[1]
    /\ response.sent = <<response.target_device_ids[2]>>
    /\ response.offline = <<response.target_device_ids[1]>>

\* C27: deleting a campaign sends revert_to_local_playlist to the connected
\* devices locked onto it.  Checked for the device whose decision, the
\* request served just before the deletion, selected the campaign: it is
\* connected and locked onto the campaign, so it is notified.
C27_RevertSentToLockedDevices ==
    [][\A c \in CampaignIds :
          /\ delete_campaign(c)
          /\ c \in DOMAIN campaigns
          /\ response.op = "decide_ad"
          /\ response.outcome = "play"
          /\ response.campaign_id = c
          /\ get_device_sid(device_to_sid, response.device_id) # NoSid
          => response.device_id \in response'.revert_to_local_playlist]_vars

\* C28: when delete_device has answered success, the deleted device has no
\* binding in the session registry: get_device_sid finds no handle for it,
\* and a push to it would put it in the offline list.
C28_DeleteDeviceUnbinds ==
    response.op = "delete_device" /\ response.status = 200 =>
        /\ get_device_sid(device_to_sid, response.device_id) = NoSid
        /\ FanOut(<<response.device_id>>, <<TRUE>>, device_to_sid).sent = <<>>

\* C29: when delete_advertisement has answered success, no remaining
\* campaign references the deleted advertisement, neither in its legacy
\* advertisement_id field nor at any position of advertisement_ids.
C29_DeleteAdCascades ==
    response.op = "delete_advertisement" /\ response.status = 200 =>
        \A c \in DOMAIN campaigns :
            /\ campaigns[c].advertisement_id # response.ad_id
            /\ \A i \in 1..Len(campaigns[c].advertisement_ids) :
                  campaigns[c].advertisement_ids[i] # response.ad_id

\* ------------------------------------------------------------------------
\* Properties: chunked download
\* ------------------------------------------------------------------------
DownloadOps == {"device_download_video_info", "device_download_video_chunk",
                "download_video", "download_video_chunk"}

\* the smallest n with n * chunk_size >= file_size
Ceil(file_size, chunk_size) ==
    CHOOSE n \in 0..file_size : n * chunk_size >= file_size /\
                               (n = 0 \/ (n - 1) * chunk_size < file_size)

\* C30: every download-info response and every chunk response reports
\* total_chunks = max(1, ceil(file_size / chunk_size)) for the file size and
\* the chunk size it reports, and never 0.
C30_TotalChunksAtLeastOne ==
    /\ response.op \in DownloadOps
    /\ response.kind \in {"info", "chunk"}
    /\ response.chunk_size > 0
    => /\ response.total_chunks = Max(1, Ceil(response.file_size, response.chunk_size))
       /\ response.total_chunks # 0

\* C31: a chunk request of a device for index i < total_chunks is answered
\* with the bytes from i * chunk_size up to min((i + 1) * chunk_size,
\* file_size) and reports that range, the file size, i and total_chunks; a
\* request with i >= total_chunks or a negative i is rejected with an error
\* and serves nothing.
C31_ChunkRange ==
    [][\A a \in DownloadAdIds, i \in DownloadChunkNumbers, size \in DownloadChunkSizes :
          device_download_video_chunk(a, i, size) /\ VideoExists(a) /\ size > 0 =>
              LET file_size == GetSize(a)
                  chunk_size == Min(Max(size, MIN_CHUNK_SIZE), MAX_CHUNK_SIZE)
                  total_chunks == Max(1, Ceil(file_size, chunk_size))
                  first == i * chunk_size
                  last == Min((i + 1) * chunk_size, file_size)
              IN IF 0 <= i /\ i < total_chunks
                 THEN response' =
                         [op |-> "device_download_video_chunk", kind |-> "chunk",
                          status |-> 200, chunk_number |-> i, chunk_size |-> chunk_size,
                          file_size |-> file_size, total_chunks |-> total_chunks,
                          start_byte |-> first, end_byte |-> last,
                          content_length |-> last - first]
                 ELSE response' = DownloadError("device_download_video_chunk", 400)]_vars

\* chunk 2 of a 25 MiB video in chunks of 10 MiB: bytes 20 MiB to 25 MiB
C31_Witness ==
    /\ response.op = "device_download_video_chunk"
    /\ response.kind = "chunk"
    /\ response.file_size = 25
    /\ response.chunk_size = CHUNK_SIZE
    /\ response.chunk_number = 2
    /\ response.total_chunks = 3
    /\ response.start_byte = 20
    /\ response.end_byte = 25
    /\ response.content_length = 5

\* C32: for every stored video and every requested chunk size, the chunks
\* 0 .. total_chunks - 1 the info endpoint announces are all served; the
\* first starts at byte 0, each starts where the one before ended, the last
\* ends at file_size and the lengths sum to file_size.
C32_RoundTrip ==
    \A a \in DownloadAdIds, size \in DownloadChunkSizes :
        VideoExists(a) =>
            LET info == DeviceInfoReply(a, size)
                chunk(i) == DeviceChunkReply(a, i, info.chunk_size)
                last == info.total_chunks - 1
            IN /\ info.kind = "info"
               /\ \A i \in 0..last :
                     /\ chunk(i).kind = "chunk"
                     /\ chunk(i).start_byte <= chunk(i).end_byte
                     /\ chunk(i).content_length = chunk(i).end_byte - chunk(i).start_byte
                     /\ chunk(i).start_byte = IF i = 0 THEN 0 ELSE chunk(i - 1).end_byte
               /\ chunk(last).end_byte = info.file_size
               /\ SumSeq([k \in 1..info.total_chunks |-> chunk(k - 1).content_length])
                     = info.file_size

\* the middle chunk of a 25 MiB video fetched in chunks of 10 MiB
C32_Witness ==
    /\ response.op = "device_download_video_chunk"
    /\ response.kind = "chunk"
    /\ response.file_size = 25
    /\ response.chunk_number = 1
    /\ response.start_byte = CHUNK_SIZE
    /\ response.end_byte = 2 * CHUNK_SIZE
    /\ response.total_chunks = 3

\* C33: for every stored video and every requested chunk size, the info
\* endpoint and the chunk endpoint of the device use the requested size
\* clamped into MIN_CHUNK_SIZE .. MAX_CHUNK_SIZE and report the same
\* total_chunks.
C33_SameClamp ==
    \A a \in DownloadAdIds, size \in DownloadChunkSizes :
        VideoExists(a) =>
            LET info == DeviceInfoReply(a, size)
                chunk == DeviceChunkReply(a, 0, size)
                clamped == Min(Max(size, MIN_CHUNK_SIZE), MAX_CHUNK_SIZE)
            IN /\ info.kind = "info"
               /\ info.chunk_size = clamped
               /\ chunk.kind = "chunk"
               /\ chunk.chunk_size = clamped
               /\ chunk.total_chunks = info.total_chunks

\* ------------------------------------------------------------------------
\* Properties: location reports
\* ------------------------------------------------------------------------
\* a report without one of its fields, or with a longitude outside
\* -180 .. 180 or a latitude outside -90 .. 90
InvalidReport(data) ==
    \/ {"device_id", "longitude", "latitude"} \ DOMAIN data # {}
    \/ data.longitude < -180 \/ data.longitude > 180
    \/ data.latitude < -90 \/ data.latitude > 90

\* C34: a location report with a missing field or a coordinate out of range
\* is answered with an error and changes nothing: the stored positions, the
\* campaigns with their rotation indices, the session registry and the
\* decisions in flight are as before, and no play command is sent.
C34_InvalidReportRejected ==
    [][/\ \A sid \in LocationSids, data \in LocationReports, written \in BOOLEAN :
             location_update(sid, data, written) /\ InvalidReport(data) =>
                 /\ response'.op = "location_update"
                 /\ response'.event = "location_error"
                 /\ UNCHANGED <<devices, campaigns, registry_vars, decide>>
       /\ \A data \in HeartbeatBodies, written \in BOOLEAN :
             /\ heartbeat(data, written)
             /\ \/ {"device_id", "location"} \ DOMAIN data # {}
                \/ {"longitude", "latitude"} \ DOMAIN data.location # {}
                \/ InvalidReport([device_id |-> data.device_id] @@ data.location)
             => /\ response'.op = "heartbeat"
                /\ response'.status = 400
                /\ UNCHANGED <<devices, campaigns, registry_vars, decide>>]_vars

\* a report with a longitude out of range, sent by a registered handle for
\* its device while a campaign covers the device, was rejected
C34_Witness ==
    /\ response.op = "location_update"
    /\ response.event = "location_error"
    /\ response.error = "invalid_range"
    /\ response.sid \in DOMAIN active_connections
    /\ campaigns # EmptyDict

\* C35: in every state device_to_sid[d] = h exactly when
\* active_connections[h].device_id = d, so both maps have the same number of
\* entries, and active_devices is the number of session entries.
C35_MapsConsistent ==
    /\ \A d \in DOMAIN device_to_sid :
          /\ device_to_sid[d] \in DOMAIN active_connections
          /\ active_connections[device_to_sid[d]].device_id = d
    /\ \A h \in DOMAIN active_connections :
          get_device_sid(device_to_sid, active_connections[h].device_id) = h
    /\ Cardinality(DOMAIN device_to_sid) = Cardinality(DOMAIN active_connections)
    /\ connection_stats.active_devices = Cardinality(DOMAIN active_connections)

\* C36: a valid location report received on a handle that has no session
\* entry, or whose session entry is for another device than the report
\* names, is not acted on: no position is stored, no decision is started
\* and no rotation index changes.
C36_OnlyBoundHandleReports ==
    [][\A sid \in LocationSids, data \in LocationReports, written \in BOOLEAN :
          /\ location_update(sid, data, written)
          /\ ~InvalidReport(data)
          /\ \/ sid \notin DOMAIN active_connections
             \/ active_connections[sid].device_id # data.device_id
          => UNCHANGED <<devices, campaigns, decide>>]_vars

\* ------------------------------------------------------------------------
\* Properties: upload sessions under concurrent requests
\* ------------------------------------------------------------------------
ChunksOf(files, upload_id) == {k \in DOMAIN files : k[1] = upload_id}

\* C37: the session file of an issued upload id is deleted only by the
\* last step of cancel and of a successful complete.  Once it is gone it is
\* never written again and no chunk file of that upload id is created, also
\* when an upload_chunk request had read the session before.
C37_NoResurrection ==
    [][\A u \in UploadIds :
          u \in issued_ids /\ u \notin DOMAIN session_files =>
              /\ u \notin DOMAIN session_files'
              /\ ChunksOf(chunk_files', u) \subseteq ChunksOf(chunk_files, u)]_vars

\* C38: in every state the received_chunks of every upload session hold
\* only chunk numbers of 0 .. total_chunks - 1.
C38_ReceivedInRange ==
    \A u \in DOMAIN session_files :
        \A i \in DOMAIN session_files[u].received_chunks :
            /\ session_files[u].received_chunks[i] >= 0
            /\ session_files[u].received_chunks[i] < session_files[u].total_chunks

\* ------------------------------------------------------------------------
\* Properties: pushed download commands
\* ------------------------------------------------------------------------
\* with chunks of CHUNK_SIZE the chunk endpoint of the device serves the
\* indices below total_chunks and no other
AcceptsExactly(advertisement_id, total_chunks) ==
    \A i \in 0..3 :
        (DeviceChunkReply(advertisement_id, i, CHUNK_SIZE).kind = "chunk")
            <=> (i < total_chunks)

\* C39: the total_chunks of every DOWNLOAD_VIDEO command, sent on a request
\* of the device, by the single push or by the batch push of the
\* administrator, is the number of chunks the chunk endpoint of the device
\* serves for that video with chunks of CHUNK_SIZE.
C39_PushedTotalMatchesEndpoint ==
    /\ response.op = "download_request" /\ response.event = "download_video" =>
          AcceptsExactly(response.advertisement_id, response.total_chunks)
    /\ response.op = "push_download" /\ response.status = 200 =>
          AcceptsExactly(response.advertisement_id, response.total_chunks)
    /\ response.op = "batch_push_download" /\ response.status = 200 =>
          \A k \in 1..Len(response.batch_results) :
              response.batch_results[k].status = "success" =>
                  AcceptsExactly(response.batch_results[k].advertisement_id,
                                 response.batch_results[k].total_chunks)

\* ------------------------------------------------------------------------
\* Properties: frame of a decision
\* ------------------------------------------------------------------------
\* a step of a decision: a call moves on, or a decision is returned
DecisionStep == decide' # decide \/ response'.op = "decide_ad"

\* C40: a step of a decision changes at most current_ad_index of the one
\* campaign selected by the call that stores its next index in this step,
\* and a step that returns no decision changes no campaign.
C40_DecisionFrame ==
    [][DecisionStep =>
          /\ DOMAIN campaigns' = DOMAIN campaigns
          /\ \A c \in DOMAIN campaigns :
                campaigns'[c] # campaigns[c] =>
                    /\ \E d \in Deciders :
                          /\ decide[d].pc = "write"
                          /\ decide'[d].pc = "idle"
                          /\ decide[d].campaign_id = c
                    /\ response'.op = "decide_ad"
                    /\ response'.outcome = "play"
                    /\ response'.campaign_id = c
                    /\ \A k \in DOMAIN campaigns[c] \ {"current_ad_index"} :
                          campaigns'[c][k] = campaigns[c][k]
          /\ (response'.op = "decide_ad" /\ response'.outcome = "none")
                => UNCHANGED campaigns]_vars

\* a decision advanced the index of its campaign while another campaign
\* with a different index exists
C40_Witness ==
    /\ response.op = "decide_ad"
    /\ response.outcome = "play"
    /\ response.campaign_id \in DOMAIN campaigns
    /\ campaigns[response.campaign_id].current_ad_index = response.next_index
    /\ \E c \in DOMAIN campaigns :
          /\ c # response.campaign_id
          /\ campaigns[c].current_ad_index # response.next_index

====
